---- MODULE Spec2Model ----
(***************************************************************************)
(* Model of adl_cimawebdrops_plugin/client.py: the CimaWebDropsClient      *)
(* (token manager, upstream gateway, station aggregator, cache layer).     *)
(*                                                                         *)
(* Every public method is one action.  The answers of the identity         *)
(* provider and of the API, and the time the blocking steps take, are the  *)
(* inputs of a call (the record env); a method is an operator from the     *)
(* world before the call (clock, token slot, cache store) to the world     *)
(* after it, so that nested calls compose as they do in the code.          *)
(***************************************************************************)
EXTENDS Integers, Sequences, FiniteSets, TLC

VARIABLES now, ticks, tok, cache, last, input

vars == <<now, ticks, tok, cache, last, input>>

----------------------------------------------------------------------------
(* Bounds of the model *)

\* how many times the clock may advance in a behaviour
MaxTicks == 2
\* longest raw sensor listing of one class in the aggregation inputs
MaxListLen == 2

----------------------------------------------------------------------------
(* Program constants *)

TokenMargin == 30
DefaultExpiresIn == 300
CacheTTL == 86400
DefaultPrecision == 5

----------------------------------------------------------------------------
(* Python values *)

\* an optional value: None, or a value v
PyNone == [k |-> "none", v |-> <<>>]
Val(x) == [k |-> "val", v |-> x]

\* truth value of an optional list / dict (None and empty containers are falsy)
Truthy(o) == o.k = "val" /\ o.v # <<>>

\* truth value of an optional string (None and "" are falsy)
TruthyStr(s) == s # "None" /\ s # ""

Range(s) == {s[i] : i \in 1..Len(s)}

\* position of the first element of seq equal to x, 0 if none
IndexOf(seq, x) ==
  IF \E i \in 1..Len(seq) : seq[i] = x
  THEN CHOOSE i \in 1..Len(seq) : seq[i] = x /\ \A j \in 1..(i - 1) : seq[j] # x
  ELSE 0

\* the keys of a dict kept as a sequence of [key, value] in insertion order
Keys(d) == [i \in 1..Len(d) |-> d[i].key]

----------------------------------------------------------------------------
(* Client instances: CimaWebDropsClient.__init__ *)

\* c1 and c2 are built for one credential set, c2 with use_cache=False; c3 is
\* built for another user and base URL of the same OAuth client
Clients == {"c1", "c2", "c3"}

client_id(c) == "id1"
use_cache(c) == c # "c2"

\* the credential set a client is built for
credentials(c) ==
  [token_endpoint |-> "idp", client_id |-> client_id(c),
   username |-> IF c = "c3" THEN "user3" ELSE "user1",
   password |-> IF c = "c3" THEN "pw3" ELSE "pw1",
   api_base_url |-> IF c = "c3" THEN "api3" ELSE "api1"]

NewSlot == [access_token |-> "None", expiry |-> 0]

----------------------------------------------------------------------------
(* The world a call runs in.  err = "" while no exception is propagating. *)

World(c) ==
  [now |-> now, slot |-> tok[c], cache |-> cache, ntok |-> 0, nres |-> 0, err |-> ""]

Raise(w, e) == [w EXCEPT !.err = e]

\* requests' Response.raise_for_status: HTTPError for 4xx and 5xx
raise_for_status(status) == status >= 400 /\ status < 600

\* an HTTP exchange: status 0 stands for a transport failure (no response)
TransportFailure == 0

----------------------------------------------------------------------------
(* Token manager *)

Omitted == [k |-> "omitted", v |-> 0]
Seconds(n) == [k |-> "int", v |-> n]
\* an expires_in that int() rejects
NotANumber == [k |-> "bad", v |-> 0]

\* answers of the token endpoint
IdpDown == [status |-> TransportFailure, access_token |-> "None", expires_in |-> Omitted]
IdpStatus(s) == [status |-> s, access_token |-> "None", expires_in |-> Omitted]
IdpToken(t, e) == [status |-> 200, access_token |-> t, expires_in |-> e]

\* the margin test off by one: a token is reused at now = expiry - 30
ensure_token_MarginOffByOne(w, env) ==
  LET t0 == w.now IN
  IF TruthyStr(w.slot.access_token) /\ t0 <= w.slot.expiry - TokenMargin
  THEN w
  ELSE
    LET w1 == [w EXCEPT !.ntok = @ + 1, !.now = @ + env.delay]
        r == env.idp
    IN IF r.status = TransportFailure THEN Raise(w1, "ConnectionError")
       ELSE IF raise_for_status(r.status) THEN Raise(w1, "HTTPError")
       ELSE IF r.access_token = "None" THEN Raise(w1, "KeyError")
       ELSE IF r.expires_in.k = "bad"
            THEN Raise([w1 EXCEPT !.slot.access_token = r.access_token], "ValueError")
       ELSE [w1 EXCEPT !.slot = [access_token |-> r.access_token,
                                 expiry |-> w1.now + (IF r.expires_in.k = "omitted"
                                                      THEN DefaultExpiresIn
                                                      ELSE r.expires_in.v)]]

\* _ensure_token, client.py 29-50
ensure_token(w, env) ==
  LET t0 == w.now IN
  IF TruthyStr(w.slot.access_token) /\ t0 < w.slot.expiry - TokenMargin
  THEN w
  ELSE
    LET w1 == [w EXCEPT !.ntok = @ + 1, !.now = @ + env.delay]
        r == env.idp
    IN IF r.status = TransportFailure THEN Raise(w1, "ConnectionError")
       ELSE IF raise_for_status(r.status) THEN Raise(w1, "HTTPError")
       ELSE IF r.access_token = "None" THEN Raise(w1, "KeyError")
       ELSE IF r.expires_in.k = "bad"
            THEN Raise([w1 EXCEPT !.slot.access_token = r.access_token], "ValueError")
       ELSE [w1 EXCEPT !.slot = [access_token |-> r.access_token,
                                 expiry |-> w1.now + (IF r.expires_in.k = "omitted"
                                                      THEN DefaultExpiresIn
                                                      ELSE r.expires_in.v)]]

\* _auth_headers, client.py 52-54
auth_headers(w, env) == ensure_token(w, env)

----------------------------------------------------------------------------
(* Cache store: django.core.cache, a shared key/value store with expiry *)

\* cache.get(key): the value while the entry is valid, None otherwise
cache_get(w, key) ==
  IF key \in DOMAIN w.cache /\ w.now < w.cache[key].expires
  THEN w.cache[key].value
  ELSE PyNone

\* the store keeps the entry a key already has
cache_set_KeepsExisting(w, key, value, timeout) ==
  LET old == w.cache
      entry == [value |-> value, expires |-> w.now + timeout]
  IN [w EXCEPT !.cache = [k \in (DOMAIN old) \cup {key} |->
                            IF k \in DOMAIN old THEN old[k] ELSE entry]]

\* cache.set(key, value, timeout)
cache_set(w, key, value, timeout) ==
  LET old == w.cache
      entry == [value |-> value, expires |-> w.now + timeout]
  IN [w EXCEPT !.cache = [k \in (DOMAIN old) \cup {key} |->
                            IF k = key THEN entry ELSE old[k]]]

\* the time between two consecutive statements of a method
Pause(w, env) == [w EXCEPT !.now = @ + env.gap]

----------------------------------------------------------------------------
(* Upstream gateway *)

Ret(w, ret) == [w |-> w, ret |-> ret]

ApiDown == [status |-> TransportFailure, body |-> PyNone]
ApiStatus(s) == [status |-> s, body |-> PyNone]
ApiJson(b) == [status |-> 200, body |-> b]

\* requests.get(url, headers=headers, ...); r.raise_for_status(); r.json(),
\* w1 being the world after the headers were built
requests_get(w1, env, resp) ==
  IF w1.err # "" THEN Ret(w1, PyNone)
  ELSE
    LET w2 == [w1 EXCEPT !.nres = @ + 1, !.now = @ + env.delay] IN
    IF resp.status = TransportFailure THEN Ret(Raise(w2, "ConnectionError"), PyNone)
    ELSE IF raise_for_status(resp.status) THEN Ret(Raise(w2, "HTTPError"), PyNone)
    ELSE Ret(w2, resp.body)

\* the request is sent although the token could not be obtained
http_get_SendsWithoutToken(w, env, resp) ==
  requests_get(Raise(auth_headers(w, env), ""), env, resp)

\* requests.get(url, headers=self._auth_headers(), ...) and the two
\* statements after it
http_get(w, env, resp) ==
  requests_get(auth_headers(w, env), env, resp)

KeyClasses(c) == <<client_id(c), "cima-sensor-classes", <<>>>>
KeyList(c, sensor_class) == <<client_id(c), "cima-sensor-list-class", sensor_class>>
KeyStations(c) == <<client_id(c), "cima-stations", <<>>>>
KeyParams(c, station_id) == <<client_id(c), "cima-station-params", station_id>>

\* data = r.json(); if self.use_cache: cache.set(cache_key, data, ...);
\* return data, g being the outcome of the request
cache_result(store, g, cache_key) ==
  IF g.w.err # "" THEN g
  ELSE Ret(IF store THEN cache_set(g.w, cache_key, g.ret, CacheTTL) ELSE g.w, g.ret)

\* the class listing is stored whatever use_cache says
get_sensor_classes_AlwaysStores(c, w, env) ==
  LET cache_key == KeyClasses(c) IN
  IF use_cache(c) /\ Truthy(cache_get(w, cache_key))
  THEN LET w1 == Pause(w, env) IN Ret(w1, cache_get(w1, cache_key))
  ELSE cache_result(TRUE, http_get(w, env, env.classes), cache_key)

\* get_sensor_classes, client.py 56-72
get_sensor_classes(c, w, env) ==
  LET cache_key == KeyClasses(c) IN
  IF use_cache(c) /\ Truthy(cache_get(w, cache_key))
  THEN LET w1 == Pause(w, env) IN Ret(w1, cache_get(w1, cache_key))
  ELSE cache_result(use_cache(c), http_get(w, env, env.classes), cache_key)

\* the answer is stored before its status is checked
get_sensors_list_for_class_StoresErrors(c, w, env, sensor_class) ==
  LET cache_key == KeyList(c, sensor_class) IN
  IF use_cache(c) /\ cache_get(w, cache_key) # PyNone
  THEN LET w1 == Pause(w, env) IN Ret(w1, cache_get(w1, cache_key))
  ELSE
    LET g == http_get(w, env, env.list[sensor_class]) IN
    IF g.w.err = "HTTPError" /\ use_cache(c)
    THEN Ret(cache_set(g.w, cache_key, Val(<<>>), CacheTTL), PyNone)
    ELSE cache_result(use_cache(c), g, cache_key)

\* get_sensors_list_for_class, client.py 74-92
get_sensors_list_for_class(c, w, env, sensor_class) ==
  LET cache_key == KeyList(c, sensor_class) IN
  IF use_cache(c) /\ cache_get(w, cache_key) # PyNone
  THEN LET w1 == Pause(w, env) IN Ret(w1, cache_get(w1, cache_key))
  ELSE cache_result(use_cache(c), http_get(w, env, env.list[sensor_class]), cache_key)

\* dict(zip(timeline, values)): pairs up to the shorter length; a repeated
\* timestamp keeps its first position and takes the last value
RECURSIVE dict_zip(_, _, _)
dict_zip(timeline, values, d) ==
  IF timeline = <<>> \/ values = <<>> THEN d
  ELSE
    LET pos == IndexOf(Keys(d), Head(timeline))
    IN dict_zip(Tail(timeline), Tail(values),
                IF pos = 0 THEN Append(d, [key |-> Head(timeline), value |-> Head(values)])
                ELSE [d EXCEPT ![pos].value = Head(values)])

\* data[0]["timeline"], data[0]["values"] zipped into the returned dict
series_dict(g) ==
  IF g.w.err # "" THEN g
  ELSE IF ~Truthy(g.ret) THEN Ret(Raise(g.w, "IndexError"), PyNone)
  ELSE Ret(g.w, Val(dict_zip(g.ret.v[1].timeline, g.ret.v[1].values, <<>>)))

\* get_data_for_sensor, client.py 246-278 (the answer does not depend on
\* the url and the query parameters in this model)
get_data_for_sensor(c, w, env, sensor_class, sensor_id) ==
  series_dict(http_get(w, env, env.data))

----------------------------------------------------------------------------
(* Text: a str is a sequence of characters, compared as Python compares *)

\* the characters of the model in code-point order
Chars == <<" ", "0", "1", "2", "3", "4", "5", "6", "7", "8", "9", "A", "B", "C", "F", "P", "T">>

Ord(ch) == CHOOSE i \in 1..Len(Chars) : Chars[i] = ch

\* a < b for two str (lexicographic on code points)
RECURSIVE StrLess(_, _)
StrLess(a, b) ==
  IF b = <<>> THEN FALSE
  ELSE IF a = <<>> THEN TRUE
  ELSE IF Ord(Head(a)) # Ord(Head(b)) THEN Ord(Head(a)) < Ord(Head(b))
  ELSE StrLess(Tail(a), Tail(b))

\* str.strip()
RECURSIVE lstrip(_)
lstrip(a) == IF a # <<>> /\ Head(a) = " " THEN lstrip(Tail(a)) ELSE a
RECURSIVE rstrip(_)
rstrip(a) == IF a # <<>> /\ a[Len(a)] = " " THEN rstrip(SubSeq(a, 1, Len(a) - 1)) ELSE a
strip(a) == rstrip(lstrip(a))

\* str(n) for a non-negative int
RECURSIVE DecimalDigits(_)
DecimalDigits(n) ==
  IF n < 10 THEN <<Chars[n + 2]>> ELSE Append(DecimalDigits(n \div 10), Chars[(n % 10) + 2])

\* a JSON scalar used as sensor id: null, an int or a str
IdNone == [k |-> "none", n |-> 0, s |-> <<>>]
IdInt(n) == [k |-> "int", n |-> n, s |-> <<>>]
IdStr(s) == [k |-> "str", n |-> 0, s |-> s]

\* truth value of an id: None, 0 and "" are falsy
TruthyId(id) == (id.k = "int" /\ id.n # 0) \/ (id.k = "str" /\ id.s # <<>>)

\* str(sid)
str(id) == IF id.k = "int" THEN DecimalDigits(id.n) ELSE id.s

----------------------------------------------------------------------------
(* Floats: coordinates in millionths of a degree, with the sign of zero *)

Float(v) == [v |-> v, negzero |-> FALSE]
Num(v) == Val(Float(v))

\* 10 ** k
RECURSIVE Pow10(_)
Pow10(k) == IF k = 0 THEN 1 ELSE 10 * Pow10(k - 1)

\* one unit of the last kept digit, in millionths
Unit(precision) == Pow10(6 - precision)

\* no exact tie at this precision (the inputs of the model avoid ties, whose
\* outcome depends on the binary expansion of the float)
NoTie(v, precision) == 2 * ((v + Unit(precision)) % Unit(precision)) # Unit(precision)

\* round(float(x), precision): the nearest multiple of the unit; a negative
\* value that rounds to zero gives -0.0
round(x, precision) ==
  LET u == Unit(precision)
      q == (2 * x.v + u) \div (2 * u)
  IN [v |-> q * u, negzero |-> q = 0 /\ (x.v < 0 \/ x.negzero)]

\* f"{x:.{precision}f}": sign, integer part, zero-padded fraction of the given width
FormatFixed(x, precision) ==
  LET u == Unit(precision)
      a == (IF x.v < 0 THEN -x.v ELSE x.v) \div u
  IN [neg |-> x.v < 0 \/ x.negzero,
      int |-> a \div Pow10(precision),
      frac |-> a % Pow10(precision),
      width |-> precision]

\* generate_station_id, client.py 8-13: the string "{lat}_{lng}"
generate_station_id(lat, lng, precision) ==
  <<FormatFixed(round(lat, precision), precision),
    FormatFixed(round(lng, precision), precision)>>

----------------------------------------------------------------------------
(* Station aggregator *)

\* a raw sensor of a class listing: {id, name, lat, lng, mu}
RawSensor(id, name, lat, lng, mu) ==
  [id |-> id, name |-> name, lat |-> lat, lng |-> lng, mu |-> mu]

ClassLess(p, q) == StrLess(p.class, q.class)

\* the sort key (station_name, lat, lng), client.py 178
StationLess(a, b) ==
  IF a.station_name # b.station_name THEN StrLess(a.station_name, b.station_name)
  ELSE IF a.lat.v # b.lat.v THEN a.lat.v < b.lat.v
  ELSE a.lng.v < b.lng.v

KeyLess(key, a, b) == IF key = "class" THEN ClassLess(a, b) ELSE StationLess(a, b)

\* stable insertion sort, as list.sort / sorted with a key
RECURSIVE Insert(_, _, _)
Insert(sorted, x, key) ==
  IF sorted = <<>> THEN <<x>>
  ELSE IF KeyLess(key, x, sorted[Len(sorted)])
       THEN Append(Insert(SubSeq(sorted, 1, Len(sorted) - 1), x, key), sorted[Len(sorted)])
       ELSE Append(sorted, x)

RECURSIVE SortBy(_, _)
SortBy(seq, key) ==
  IF seq = <<>> THEN <<>>
  ELSE Insert(SortBy(SubSeq(seq, 1, Len(seq) - 1), key), seq[Len(seq)], key)

\* sorted(set of str)
RECURSIVE SortedStrs(_)
SortedStrs(S) ==
  IF S = {} THEN <<>>
  ELSE LET m == CHOOSE x \in S : \A y \in S \ {x} : StrLess(x, y)
       IN <<m>> \o SortedStrs(S \ {m})

\* a later non-empty unit overwrites the unit already known
merge_parameter_LastUnitWins(parameters, sensor_class, mu, sid) ==
  LET ppos == IndexOf([k \in 1..Len(parameters) |-> parameters[k].class], sensor_class)
      params1 == IF ppos = 0
                 THEN Append(parameters,
                             [class |-> sensor_class, unit |-> mu, sensor_ids |-> {}])
                 ELSE parameters
      j == IF ppos = 0 THEN Len(params1) ELSE ppos
  IN [params1 EXCEPT ![j] =
        [class |-> sensor_class,
         unit |-> IF Truthy(mu) THEN mu ELSE @.unit,
         sensor_ids |-> IF TruthyId(sid) THEN @.sensor_ids \cup {str(sid)}
                        ELSE @.sensor_ids]]

\* client.py 149-162: the sensor's unit and id merged into the parameters of
\* its station (a dict by class, in insertion order)
merge_parameter(parameters, sensor_class, mu, sid) ==
  LET ppos == IndexOf([k \in 1..Len(parameters) |-> parameters[k].class], sensor_class)
      params1 == IF ppos = 0
                 THEN Append(parameters,
                             [class |-> sensor_class, unit |-> mu, sensor_ids |-> {}])
                 ELSE parameters
      j == IF ppos = 0 THEN Len(params1) ELSE ppos
  IN [params1 EXCEPT ![j] =
        [class |-> sensor_class,
         unit |-> IF Truthy(mu) /\ ~Truthy(@.unit) THEN mu ELSE @.unit,
         sensor_ids |-> IF TruthyId(sid) THEN @.sensor_ids \cup {str(sid)}
                        ELSE @.sensor_ids]]

\* the stations are looked up by their station_id string instead of the
\* coordinate pair
merge_sensor_KeyedByStationId(stations_index, sensor_class, s, coord_precision) ==
  IF s.lat = PyNone \/ s.lng = PyNone THEN stations_index
  ELSE
    LET name == strip(IF Truthy(s.name) THEN s.name.v ELSE <<>>)
        lat_r == round(s.lat.v, coord_precision)
        lng_r == round(s.lng.v, coord_precision)
        station_id == generate_station_id(lat_r, lng_r, coord_precision)
        pos == IndexOf([k \in 1..Len(stations_index) |-> stations_index[k].station_id],
                       station_id)
        index1 == IF pos = 0
                  THEN Append(stations_index,
                              [station_id |-> station_id, station_name |-> name,
                               lat |-> lat_r, lng |-> lng_r, parameters |-> <<>>])
                  ELSE stations_index
    IN [index1 EXCEPT ![IF pos = 0 THEN Len(stations_index) + 1 ELSE pos].parameters =
          merge_parameter(@, sensor_class, s.mu, s.id)]

\* the body of the inner loop, client.py 123-162: one raw sensor s of class
\* sensor_class merged into stations_index (a dict in insertion order)
merge_sensor(stations_index, sensor_class, s, coord_precision) ==
  IF s.lat = PyNone \/ s.lng = PyNone THEN stations_index
  ELSE
    LET name == strip(IF Truthy(s.name) THEN s.name.v ELSE <<>>)
        lat_r == round(s.lat.v, coord_precision)
        lng_r == round(s.lng.v, coord_precision)
        station_id == generate_station_id(lat_r, lng_r, coord_precision)
        pos == IndexOf([k \in 1..Len(stations_index) |->
                          <<stations_index[k].lat.v, stations_index[k].lng.v>>],
                       <<lat_r.v, lng_r.v>>)
        index1 == IF pos = 0
                  THEN Append(stations_index,
                              [station_id |-> station_id, station_name |-> name,
                               lat |-> lat_r, lng |-> lng_r, parameters |-> <<>>])
                  ELSE stations_index
    IN [index1 EXCEPT ![IF pos = 0 THEN Len(stations_index) + 1 ELSE pos].parameters =
          merge_parameter(@, sensor_class, s.mu, s.id)]

\* the loop over a listing ends at the first sensor without lat or lng
RECURSIVE merge_sensors_StopsAtMalformed(_, _, _, _)
merge_sensors_StopsAtMalformed(stations_index, sensor_class, sensors, coord_precision) ==
  IF sensors = <<>> THEN stations_index
  ELSE IF Head(sensors).lat = PyNone \/ Head(sensors).lng = PyNone THEN stations_index
  ELSE merge_sensors_StopsAtMalformed(
           merge_sensor(stations_index, sensor_class, Head(sensors), coord_precision),
           sensor_class, Tail(sensors), coord_precision)

RECURSIVE merge_sensors(_, _, _, _)
merge_sensors(stations_index, sensor_class, sensors, coord_precision) ==
  IF sensors = <<>> THEN stations_index
  ELSE merge_sensors(merge_sensor(stations_index, sensor_class, Head(sensors), coord_precision),
                     sensor_class, Tail(sensors), coord_precision)

\* the listing g of the first class merged, then the classes after it
RECURSIVE collect_stations(_, _, _, _, _, _)
merge_listing(c, g, env, sensor_classes, coord_precision, stations_index) ==
  IF g.w.err # "" THEN g
  ELSE collect_stations(c, g.w, env, Tail(sensor_classes), coord_precision,
                        merge_sensors(stations_index, Head(sensor_classes),
                                      IF Truthy(g.ret) THEN g.ret.v ELSE <<>>,
                                      coord_precision))

\* the outer loop, client.py 119-162: the listings are fetched class by class
collect_stations(c, w, env, sensor_classes, coord_precision, stations_index) ==
  IF sensor_classes = <<>> THEN Ret(w, stations_index)
  ELSE merge_listing(c, get_sensors_list_for_class(c, w, env, Head(sensor_classes)), env,
                     sensor_classes, coord_precision, stations_index)

\* client.py 164-175: parameters sorted by class, sensor_ids sorted
finish_station(st) ==
  LET sorted_params == SortBy(st.parameters, "class") IN
  [st EXCEPT !.parameters =
     [k \in 1..Len(sorted_params) |->
        [class |-> sorted_params[k].class,
         unit |-> sorted_params[k].unit,
         sensor_ids |-> SortedStrs(sorted_params[k].sensor_ids)]]]

\* client.py 164-179: the stations of the index finished and sorted
sorted_stations(g) ==
  IF g.w.err # "" THEN g
  ELSE Ret(g.w, Val(SortBy([k \in 1..Len(g.ret) |-> finish_station(g.ret[k])], "station")))

\* get_unique_stations_with_parameters, client.py 94-179
get_unique_stations_with_parameters(c, w, env, sensor_classes, coord_precision) ==
  sorted_stations(collect_stations(c, w, env, sensor_classes, coord_precision, <<>>))

----------------------------------------------------------------------------
(* Station directory and per-station parameters *)

\* {st["station_id"]: st for st in stations}: a dict in insertion order,
\* a repeated key keeps its first position and takes the last value
RECURSIVE dict_by_station_id(_, _)
dict_by_station_id(stations, d) ==
  IF stations = <<>> THEN d
  ELSE
    LET st == Head(stations)
        pos == IndexOf(Keys(d), st.station_id)
    IN dict_by_station_id(Tail(stations),
                          IF pos = 0 THEN Append(d, [key |-> st.station_id, value |-> st])
                          ELSE [d EXCEPT ![pos].value = st])

\* client.py 200-206: the stations u keyed by station_id, stored and returned
stations_dict(c, u, cache_key) ==
  IF u.w.err # "" THEN u
  ELSE cache_result(use_cache(c), Ret(u.w, Val(dict_by_station_id(u.ret.v, <<>>))), cache_key)

\* client.py 193-198: nothing to aggregate without classes, g being the
\* outcome of get_sensor_classes
stations_of_classes(c, g, env, cache_key) ==
  IF g.w.err # "" THEN g
  ELSE IF ~Truthy(g.ret) THEN Ret(g.w, Val(<<>>))
  ELSE stations_dict(c, get_unique_stations_with_parameters(c, g.w, env, g.ret.v,
                                                           DefaultPrecision),
                     cache_key)

\* a hit stores the directory again, with 24 more hours to live
get_stations_RenewsOnHit(c, w, env) ==
  LET cache_key == KeyStations(c) IN
  IF use_cache(c) /\ Truthy(cache_get(w, cache_key))
  THEN cache_result(TRUE, Ret(Pause(w, env), cache_get(Pause(w, env), cache_key)), cache_key)
  ELSE stations_of_classes(c, get_sensor_classes(c, w, env), env, cache_key)

\* get_stations, client.py 181-206
get_stations(c, w, env) ==
  LET cache_key == KeyStations(c) IN
  IF use_cache(c) /\ Truthy(cache_get(w, cache_key))
  THEN LET w1 == Pause(w, env) IN Ret(w1, cache_get(w1, cache_key))
  ELSE stations_of_classes(c, get_sensor_classes(c, w, env), env, cache_key)

\* client.py 224-232: the parameters of a station as {code, name, unit} entries
params_list(parameters) ==
  Val([k \in 1..Len(parameters) |->
         [class |-> parameters[k].class,
          unit |-> parameters[k].unit,
          sensor_ids |-> parameters[k].sensor_ids]])

\* client.py 220-244: the station looked up in the directory g
parameters_of_station(c, g, pos, cache_key) ==
  IF g.w.err # "" THEN g
  ELSE IF g.ret = PyNone THEN Ret(Raise(g.w, "TypeError"), PyNone)
  ELSE IF pos = 0 THEN Ret(g.w, Val(<<>>))
  ELSE cache_result(use_cache(c), Ret(g.w, params_list(g.ret.v[pos].value.parameters)),
                    cache_key)

\* the position of station_id in the directory g, 0 if it is not there
station_position(g, station_id) ==
  IF g.w.err # "" \/ g.ret = PyNone THEN 0 ELSE IndexOf(Keys(g.ret.v), station_id)

\* stations.get(station_id) on the directory g
lookup_station(c, g, station_id, cache_key) ==
  parameters_of_station(c, g, station_position(g, station_id), cache_key)

\* get_station_parameters, client.py 208-244
get_station_parameters(c, w, env, station_id) ==
  LET cache_key == KeyParams(c, station_id) IN
  IF use_cache(c) /\ Truthy(cache_get(w, cache_key))
  THEN LET w1 == Pause(w, env) IN Ret(w1, cache_get(w1, cache_key))
  ELSE lookup_station(c, get_stations(c, w, env), station_id, cache_key)

----------------------------------------------------------------------------
(* Inputs: what the identity provider and the API answer, and how long the *)
(* blocking steps take (whole seconds)                                     *)

Tokens == {"tokA", "tokB"}
ExpiresIns == {Omitted, Seconds(30), Seconds(31), NotANumber}

\* answers of the token endpoint to a direct refresh
IdpAnswers ==
  {IdpDown, IdpStatus(401), IdpStatus(503), IdpStatus(200)}
    \cup {IdpToken(t, e) : t \in Tokens, e \in ExpiresIns}

\* answers of the token endpoint during a gateway operation
IdpGateway == {IdpDown, IdpStatus(401), IdpToken("tokA", Seconds(31)), IdpToken("tokB", Omitted)}

\* answers of the token endpoint during a cached operation
IdpUp == IdpToken("tokA", Omitted)
IdpBasic == {IdpDown, IdpUp}

Delays == {0, 1}
Gaps == {0, 1}

\* advances of the clock between calls: one second, or to the last second
\* of a 24h window
TickSteps == {1, CacheTTL - 1}

ClassT == <<"T">>
ClassP == <<"P">>
Classes == {ClassT, ClassP}

s1 == RawSensor(IdInt(1), Val(<<"A">>), Num(17662061), Num(33972961), Val(<<"C">>))
s2 == RawSensor(IdInt(2), Val(<<"B">>), Num(17662066), Num(33972961), PyNone)

ClassesAnswers == {ApiStatus(500), ApiJson(Val(<<>>)), ApiJson(Val(<<ClassT>>))}

ListAnswers == {ApiStatus(404), ApiJson(Val(<<>>)), ApiJson(Val(<<s1>>))}

Series(timeline, values) == [timeline |-> timeline, values |-> values]

DataAnswers ==
  {ApiDown, ApiJson(Val(<<>>)), ApiJson(Val(<<Series(<<"202501010000">>, <<7>>)>>)),
   ApiJson(Val(<<Series(<<"202501010000", "202501010010">>, <<7>>)>>))}

NoLists == [sensor_class \in Classes |-> ApiDown]

\* station ids a caller may ask the parameters of
StationIds == {generate_station_id(Float(17662061), Float(33972961), DefaultPrecision)}

Env(idp, delay, gap, classes, list, data) ==
  [idp |-> idp, delay |-> delay, gap |-> gap, classes |-> classes, list |-> list,
   data |-> data]

----------------------------------------------------------------------------
(* State *)

NoCall ==
  [n |-> 0, op |-> "", c |-> "", arg |-> <<>>,
   env |-> Env(IdpDown, 0, 0, ApiDown, NoLists, ApiDown),
   now0 |-> 0, slot0 |-> NewSlot, ntok |-> 0, nres |-> 0, err |-> "", ret |-> PyNone,
   tret |-> 0]

\* the input of an aggregation run: the requested classes, the precision
\* and the listings the API answers with
NoInput == [sensor_classes |-> <<>>, coord_precision |-> DefaultPrecision, list |-> NoLists]

Init ==
  /\ now = 0
  /\ ticks = 0
  /\ tok = [c \in Clients |-> NewSlot]
  /\ cache = <<>>
  /\ last = NoCall
  /\ input = NoInput

\* the store drops the entries whose time-to-live has ended
Unexpired(store, t) == [k \in {x \in DOMAIN store : t < store[x].expires} |-> store[k]]

\* the clock advances between two calls, by one of the given steps
TickBy(Steps) ==
  \E d \in Steps :
    /\ ticks < MaxTicks
    /\ now' = now + d
    /\ ticks' = ticks + 1
    /\ cache' = Unexpired(cache, now + d)
    /\ UNCHANGED <<tok, last, input>>

Tick == TickBy(TickSteps)

\* client c runs operation op: g is the outcome computed from World(c)
Call(c, op, arg, env, g) ==
  /\ ticks + (g.w.now - now) <= MaxTicks
  /\ now' = g.w.now
  /\ ticks' = ticks + (g.w.now - now)
  /\ tok' = [tok EXCEPT ![c] = g.w.slot]
  /\ cache' = g.w.cache
  /\ last' = [n |-> 1 - last.n, op |-> op, c |-> c, arg |-> arg, env |-> env,
              now0 |-> now, slot0 |-> tok[c],
              ntok |-> g.w.ntok, nres |-> g.w.nres, err |-> g.w.err,
              ret |-> IF g.w.err = "" THEN g.ret ELSE PyNone,
              tret |-> g.w.now]
  /\ UNCHANGED input

\* the pause between the two reads of a hit matters to caching clients only
GapsOf(c, Gs) == IF use_cache(c) THEN Gs ELSE {0}

CallEnsureToken(c) ==
  \E idp \in IdpAnswers, d \in Delays :
    LET env == Env(idp, d, 0, ApiDown, NoLists, ApiDown) IN
    Call(c, "_ensure_token", <<>>, env, Ret(ensure_token(World(c), env), PyNone))

CallGetSensorClasses(c, Idps, Ds, Gs) ==
  \E idp \in Idps, d \in Ds, gap \in GapsOf(c, Gs), classes \in ClassesAnswers :
    LET env == Env(idp, d, gap, classes, NoLists, ApiDown) IN
    Call(c, "get_sensor_classes", <<>>, env, get_sensor_classes(c, World(c), env))

CallGetSensorsListForClass(c, Idps, Ds, Gs) ==
  \E idp \in Idps, d \in Ds, gap \in GapsOf(c, Gs), answer \in ListAnswers :
    LET env == Env(idp, d, gap, ApiDown, [NoLists EXCEPT ![ClassT] = answer], ApiDown) IN
    Call(c, "get_sensors_list_for_class", <<ClassT>>, env,
         get_sensors_list_for_class(c, World(c), env, ClassT))

CallGetDataForSensor(c, Idps, Ds) ==
  \E idp \in Idps, d \in Ds, data \in DataAnswers :
    LET env == Env(idp, d, 0, ApiDown, NoLists, data) IN
    Call(c, "get_data_for_sensor", <<ClassT, <<"1">>>>, env,
         get_data_for_sensor(c, World(c), env, ClassT, <<"1">>))

CallGetStations(c, Idps, Gs) ==
  \E idp \in Idps, gap \in GapsOf(c, Gs), classes \in ClassesAnswers, answer \in ListAnswers :
    LET env == Env(idp, 0, gap, classes, [NoLists EXCEPT ![ClassT] = answer], ApiDown) IN
    Call(c, "get_stations", <<>>, env, get_stations(c, World(c), env))

CallGetStationParameters(c, Idps, Gs) ==
  \E station_id \in StationIds, idp \in Idps, gap \in GapsOf(c, Gs) :
    \E classes \in ClassesAnswers, answer \in ListAnswers :
      LET env == Env(idp, 0, gap, classes, [NoLists EXCEPT ![ClassT] = answer], ApiDown) IN
      Call(c, "get_station_parameters", <<station_id>>, env,
           get_station_parameters(c, World(c), env, station_id))

----------------------------------------------------------------------------
(* Specification of the token manager and the gateway: a client without    *)
(* cache, so that every gateway operation reaches the upstream             *)

Next ==
  \/ Tick
  \/ CallEnsureToken("c2")
  \/ CallGetSensorClasses("c2", IdpGateway, Delays, {0})
  \/ CallGetSensorsListForClass("c2", IdpGateway, Delays, {0})
  \/ CallGetDataForSensor("c2", IdpGateway, Delays)

Spec == Init /\ [][Next]_vars

(* Specification of the cache layer: the caching client *)

NextCache ==
  \/ Tick
  \/ CallGetSensorClasses("c1", IdpBasic, {0}, {0})
  \/ CallGetSensorsListForClass("c1", IdpBasic, {0}, {0})
  \/ CallGetStations("c1", {IdpUp}, {0})
  \/ CallGetStationParameters("c1", {IdpUp}, {0})

SpecCache == Init /\ [][NextCache]_vars

(* Specification of the cache bypass: the caching client fills the store   *)
(* that the client without cache shares; the clock advances by seconds, so *)
(* that the entries stay valid                                             *)

NextBypass ==
  \/ TickBy({1})
  \/ CallGetStationParameters("c1", {IdpUp}, {0})
  \/ CallGetSensorClasses("c2", {IdpUp}, {0}, {0})
  \/ CallGetSensorsListForClass("c2", {IdpUp}, {0}, {0})
  \/ CallGetStations("c2", {IdpUp}, {0})
  \/ CallGetStationParameters("c2", {IdpUp}, {0})

SpecBypass == Init /\ [][NextBypass]_vars

(* Specification of the station aggregator: the listings are drawn at the  *)
(* start and get_unique_stations_with_parameters is applied to them        *)

a1 == RawSensor(IdInt(1), Val(<<"A">>), Num(17662061), Num(33972961), Val(<<"C">>))
a2 == RawSensor(IdInt(2), Val(<<"B">>), Num(17662064), Num(33972961), Val(<<"F">>))
a3 == RawSensor(IdInt(0), Val(<<"A">>), Num(17662061), Num(33972961), PyNone)
a4 == RawSensor(IdStr(<<"1", "0">>), Val(<<" ", "A", " ">>), Num(17662066), Num(33972961),
                Val(<<>>))
a5 == RawSensor(IdInt(10), PyNone, Num(-1), Num(1), Val(<<"C">>))
a6 == RawSensor(IdStr(<<"2">>), Val(<<"A">>), Num(1), Num(1), PyNone)
a7 == RawSensor(IdInt(3), Val(<<"B">>), PyNone, Num(33972961), Val(<<"C">>))
a8 == RawSensor(IdStr(<<"1">>), Val(<<"A">>), Num(17662061), Num(33972961), Val(<<"C">>))

AggSensors == {a1, a2, a3, a4, a5, a6, a7, a8}
AggSensorsP == {a2, a4, a7}

Precisions == {4, DefaultPrecision}

SeqsUpTo(S, n) == UNION {[1..k -> S] : k \in 0..n}

AggInputs ==
  {[sensor_classes |-> cs, coord_precision |-> p,
    list |-> [sc \in Classes |-> IF sc = ClassT THEN ApiJson(Val(lt)) ELSE lp]] :
     cs \in {<<ClassT>>, <<ClassT, ClassP>>, <<ClassP, ClassT>>},
     p \in Precisions,
     lt \in SeqsUpTo(AggSensors, MaxListLen),
     lp \in {ApiJson(PyNone)} \cup {ApiJson(Val(l)) : l \in SeqsUpTo(AggSensorsP, 1)}}

\* the sensors of the listing of a class, as the aggregator iterates them
Listing(list, sensor_class) ==
  IF Truthy(list[sensor_class].body) THEN list[sensor_class].body.v ELSE <<>>

InitAgg ==
  /\ now = 0
  /\ ticks = 0
  /\ tok = [c \in Clients |-> NewSlot]
  /\ cache = <<>>
  /\ last = NoCall
  /\ input \in AggInputs
  /\ \A sc \in Classes : \A s \in Range(Listing(input.list, sc)) :
       /\ s.lat # PyNone => NoTie(s.lat.v.v, input.coord_precision)
       /\ s.lng # PyNone => NoTie(s.lng.v.v, input.coord_precision)

CallGetUniqueStations(c) ==
  LET env == Env(IdpUp, 0, 0, ApiDown, input.list, ApiDown) IN
  Call(c, "get_unique_stations_with_parameters",
       <<input.sensor_classes, input.coord_precision>>, env,
       get_unique_stations_with_parameters(c, World(c), env, input.sensor_classes,
                                           input.coord_precision))

NextAgg == CallGetUniqueStations("c2")

SpecAgg == InitAgg /\ [][NextAgg]_vars

----------------------------------------------------------------------------
(* Properties of the token manager and the gateway (Spec) *)

GatewayOps == {"get_sensor_classes", "get_sensors_list_for_class", "get_data_for_sensor"}

\* C1: a call of _ensure_token by a client that holds a token sends a token
\* request if and only if now >= expiry_epoch - 30, and a call that sends none
\* leaves the token slot as it was; a client without token always sends one.
C1_RefreshBoundary ==
  last.op = "_ensure_token" =>
    /\ last.ntok \in {0, 1}
    /\ TruthyStr(last.slot0.access_token) =>
         (last.ntok = 1 <=> last.now0 >= last.slot0.expiry - TokenMargin)
    /\ last.ntok = 0 => tok[last.c] = last.slot0
    /\ ~TruthyStr(last.slot0.access_token) => last.ntok = 1

\* the token held expires exactly 30 seconds after the call: refreshed
C1_Witness ==
  /\ last.op = "_ensure_token"
  /\ TruthyStr(last.slot0.access_token)
  /\ last.slot0.expiry = last.now0 + TokenMargin
  /\ last.ntok = 1

\* C2: when _ensure_token returns without error, the token in the slot is
\* not expired at that moment: now < expiry_epoch - 30.
C2_NonExpiredAtReturn ==
  (last.op = "_ensure_token" /\ last.err = "") =>
    last.tret < tok[last.c].expiry - TokenMargin

\* the token request of the call got no 2xx answer
TokenRequestFailed(call) ==
  /\ call.ntok >= 1
  /\ \/ call.env.idp.status = TransportFailure
     \/ ~(call.env.idp.status >= 200 /\ call.env.idp.status < 300)

\* C3: a gateway operation whose token request fails ends with an error,
\* after exactly one token request and without any resource request.
C3_TokenFailureAborts ==
  (last.op \in GatewayOps /\ TokenRequestFailed(last)) =>
    (last.err # "" /\ last.ntok = 1 /\ last.nres = 0)

\* the identity provider rejected the token request of a sensor-list call
C3_Witness ==
  /\ last.op = "get_sensors_list_for_class"
  /\ last.env.idp.status = 401
  /\ last.ntok = 1
  /\ last.err = "HTTPError"

----------------------------------------------------------------------------
(* Properties of the cache layer (SpecCache, SpecBypass) *)

CachedOps ==
  {"get_sensor_classes", "get_sensors_list_for_class", "get_stations", "get_station_parameters"}

\* the cache key a cached operation reads and writes as its own
OwnKey(call) ==
  IF call.op = "get_sensor_classes" THEN KeyClasses(call.c)
  ELSE IF call.op = "get_sensors_list_for_class" THEN KeyList(call.c, call.arg[1])
  ELSE IF call.op = "get_stations" THEN KeyStations(call.c)
  ELSE KeyParams(call.c, call.arg[1])

\* the entry of the store under a key: <<>> when there is none
EntryAt(store, key) == IF key \in DOMAIN store THEN <<store[key]>> ELSE <<>>

\* the hit test a cached operation makes on its own key at time t
HitTest(call, store, t) ==
  LET v == cache_get([now |-> t, cache |-> store], OwnKey(call)) IN
  IF call.op = "get_sensors_list_for_class" THEN v # PyNone ELSE Truthy(v)

\* a step in which a client runs an operation
IsCall == last'.n # last.n

\* C4: with caching enabled, after a call of a cached operation that fetched
\* its value upstream and completed, the same call made again within the 24h
\* of the entry sends no token request and no resource request and returns
\* the same value, whatever that value is.
C4_SecondCallFromCache ==
  [][(/\ IsCall
      /\ last.op \in CachedOps /\ use_cache(last.c)
      /\ last.err = "" /\ last.nres >= 1
      /\ last'.op = last.op /\ last'.c = last.c /\ last'.arg = last.arg
      /\ now < last.tret + CacheTTL)
     => (/\ last'.ntok = 0
         /\ last'.nres = 0
         /\ last'.err = ""
         /\ last'.ret = last.ret)]_vars

\* the outcome of the operation of a call replayed on a given store
Replay(call, store) ==
  LET w == [now |-> call.now0, slot |-> call.slot0, cache |-> store,
            ntok |-> 0, nres |-> 0, err |-> ""]
      g == IF call.op = "get_sensor_classes" THEN get_sensor_classes(call.c, w, call.env)
           ELSE IF call.op = "get_sensors_list_for_class"
                THEN get_sensors_list_for_class(call.c, w, call.env, call.arg[1])
           ELSE IF call.op = "get_stations" THEN get_stations(call.c, w, call.env)
           ELSE get_station_parameters(call.c, w, call.env, call.arg[1])
  IN [ntok |-> g.w.ntok, nres |-> g.w.nres, err |-> g.w.err,
      ret |-> IF g.w.err = "" THEN g.ret ELSE PyNone, slot |-> g.w.slot]

\* C5: a call of a client built with use_cache disabled leaves the store
\* unchanged, ends as the same call on an empty store would (same requests,
\* same error, same result, same token slot), and sends at least one request.
C5_CacheBypass ==
  [][(IsCall /\ last'.op \in CachedOps /\ ~use_cache(last'.c))
     => (/\ cache' = cache
         /\ Replay(last', <<>>) =
              [ntok |-> last'.ntok, nres |-> last'.nres, err |-> last'.err,
               ret |-> last'.ret, slot |-> tok'[last'.c]]
         /\ last'.ntok + last'.nres >= 1)]_vars

\* the client without cache fetched the station directory upstream while the
\* store held a valid directory written by the caching client
C5_Witness ==
  /\ last.op = "get_stations" /\ ~use_cache(last.c)
  /\ last.nres >= 1 /\ last.err = ""
  /\ Truthy(cache_get([now |-> last.now0, cache |-> cache], KeyStations(last.c)))
  /\ cache_get([now |-> last.now0, cache |-> cache], KeyStations(last.c)) # last.ret

\* C6: a cached operation that ends with an error leaves the entry of its own
\* key as it was, and its hit test on that key still fails afterwards, so the
\* next call goes upstream again.
C6_ErrorsNotCached ==
  [][(IsCall /\ last'.op \in CachedOps /\ use_cache(last'.c) /\ last'.err # "")
     => (/\ EntryAt(cache', OwnKey(last')) = EntryAt(cache, OwnKey(last'))
         /\ ~HitTest(last', cache', now'))]_vars

\* get_stations failed at the sensor listing after the class listing had been
\* fetched and cached: no directory entry was written
C6_Witness ==
  /\ last.op = "get_stations" /\ use_cache(last.c)
  /\ last.err = "HTTPError" /\ last.nres = 2
  /\ KeyClasses(last.c) \in DOMAIN cache
  /\ KeyStations(last.c) \notin DOMAIN cache

----------------------------------------------------------------------------
(* Properties of the station aggregator (SpecAgg) *)

Aggregated == last.op = "get_unique_stations_with_parameters" /\ last.err = ""

\* the stations returned
Out == last.ret.v

\* the raw sensors in processing order, each with the class it is listed under
RECURSIVE Processed(_, _)
Processed(sensor_classes, list) ==
  IF sensor_classes = <<>> THEN <<>>
  ELSE LET l == Listing(list, Head(sensor_classes)) IN
       [i \in 1..Len(l) |-> [class |-> Head(sensor_classes), s |-> l[i]]]
         \o Processed(Tail(sensor_classes), list)

Located(e) == e.s.lat # PyNone /\ e.s.lng # PyNone

\* the rounded coordinates of a located raw sensor, as numbers
Rounded(e) ==
  <<round(e.s.lat.v, input.coord_precision).v, round(e.s.lng.v, input.coord_precision).v>>

CoordsOf(st) == <<st.lat.v, st.lng.v>>

\* the stations of the output at the rounded coordinates of a raw sensor
StationsOf(e) == {k \in 1..Len(Out) : CoordsOf(Out[k]) = Rounded(e)}

\* the raw sensors of a class at the coordinates of station k, in processing order
Contributors(k, class) ==
  LET Here(e) == Located(e) /\ e.class = class /\ Rounded(e) = CoordsOf(Out[k])
  IN SelectSeq(Processed(input.sensor_classes, input.list), Here)

\* C7: every raw sensor with lat and lng lies in exactly one station of the
\* output, the one at its rounded coordinates, which lists its class, so two
\* such sensors share a station iff their rounded coordinates are equal; no
\* two stations share coordinates or station_id; each station_id is
\* generate_station_id of the station's coordinates; the dictionary keyed by
\* station_id has one entry per station.
C7_StationIdentity ==
  Aggregated =>
    LET P == Range(Processed(input.sensor_classes, input.list)) IN
    /\ \A e \in P : Located(e) =>
         /\ Cardinality(StationsOf(e)) = 1
         /\ \A k \in StationsOf(e) : \E pm \in Range(Out[k].parameters) : pm.class = e.class
    /\ \A e \in P, f \in P : (Located(e) /\ Located(f)) =>
         (StationsOf(e) = StationsOf(f) <=> Rounded(e) = Rounded(f))
    /\ \A i \in 1..Len(Out), j \in 1..Len(Out) : i # j =>
         /\ CoordsOf(Out[i]) # CoordsOf(Out[j])
         /\ Out[i].station_id # Out[j].station_id
    /\ \A k \in 1..Len(Out) :
         /\ Out[k].station_id =
              generate_station_id(Out[k].lat, Out[k].lng, input.coord_precision)
         /\ \E e \in P : Located(e) /\ Rounded(e) = CoordsOf(Out[k])
    /\ Keys(dict_by_station_id(Out, <<>>)) = [k \in 1..Len(Out) |-> Out[k].station_id]

\* two raw sensors with different coordinates fell into one station, their
\* latitudes rounding to -0.0 and to 0.0
C7_Witness ==
  /\ Aggregated
  /\ Len(Out) = 1
  /\ Out[1].lat.negzero
  /\ \E e \in Range(Processed(input.sensor_classes, input.list)) :
       Located(e) /\ e.s.lat.v.v > 0

Perms(n) == {f \in [1..n -> 1..n] : \A i \in 1..n, j \in 1..n : i # j => f[i] # f[j]}

Permuted(seq) == {[i \in 1..Len(seq) |-> seq[f[i]]] : f \in Perms(Len(seq))}

\* the result of the aggregator on given listings
AggregateOf(sensor_classes, list, coord_precision) ==
  get_unique_stations_with_parameters(
      last.c,
      [now |-> last.now0, slot |-> last.slot0, cache |-> <<>>, ntok |-> 0, nres |-> 0,
       err |-> ""],
      Env(IdpUp, 0, 0, ApiDown, list, ApiDown), sensor_classes, coord_precision).ret

\* C8: the aggregator returns the same station sequence for every permutation
\* of the sensors within each class listing and of the requested classes.
C8_PermutationInvariant ==
  Aggregated =>
    \A cs \in Permuted(input.sensor_classes) :
      \A lt \in Permuted(Listing(input.list, ClassT)) :
        \A lp \in Permuted(Listing(input.list, ClassP)) :
          AggregateOf(cs, [sc \in Classes |-> ApiJson(Val(IF sc = ClassT THEN lt ELSE lp))],
                      input.coord_precision) = last.ret

\* the unit of the first sensor of seq with a non-empty unit, otherwise dflt
FirstNonEmptyUnit(seq, dflt) ==
  IF \E i \in 1..Len(seq) : Truthy(seq[i].s.mu)
  THEN seq[CHOOSE i \in 1..Len(seq) :
             Truthy(seq[i].s.mu) /\ \A j \in 1..(i - 1) : ~Truthy(seq[j].s.mu)].s.mu
  ELSE dflt

\* C9 as stated: the unit of a parameter is the unit of the first raw sensor
\* of its (station, class), in processing order, with a non-empty unit, and
\* null if there is none.
C9_FirstNonEmptyUnitOrNull ==
  Aggregated =>
    \A k \in 1..Len(Out) : \A pm \in Range(Out[k].parameters) :
      pm.unit = FirstNonEmptyUnit(Contributors(k, pm.class), PyNone)

\* C9: the unit of a parameter is the unit of the first raw sensor of its
\* (station, class), in processing order, with a non-empty unit; if there is
\* none it is the unit reported by the first raw sensor of that (station,
\* class), null or the empty string.
C9_UnitPrecedence ==
  Aggregated =>
    \A k \in 1..Len(Out) : \A pm \in Range(Out[k].parameters) :
      /\ Contributors(k, pm.class) # <<>>
      /\ pm.unit = FirstNonEmptyUnit(Contributors(k, pm.class),
                                     Contributors(k, pm.class)[1].s.mu)

\* two sensors of one (station, class) report different non-empty units: the
\* parameter has the unit of the earlier one
C9_Witness ==
  /\ Aggregated
  /\ \E k \in 1..Len(Out) : \E pm \in Range(Out[k].parameters) :
       LET cs == Contributors(k, pm.class) IN
       /\ Len(cs) >= 2
       /\ \E i \in 1..Len(cs), j \in 1..Len(cs) :
            /\ i < j
            /\ Truthy(cs[i].s.mu) /\ Truthy(cs[j].s.mu) /\ cs[i].s.mu # cs[j].s.mu
            /\ pm.unit = cs[i].s.mu
            /\ \A h \in 1..(i - 1) : ~Truthy(cs[h].s.mu)

\* C10: the sensor_ids of a parameter are the ids, as strings, of all the raw
\* sensors of its (station, class) that have an id, without duplicates and in
\* ascending lexicographic order.
C10_SensorIdUnion ==
  Aggregated =>
    \A k \in 1..Len(Out) : \A pm \in Range(Out[k].parameters) :
      /\ Range(pm.sensor_ids) =
           {str(e.s.id) : e \in {x \in Range(Contributors(k, pm.class)) : x.s.id # IdNone}}
      /\ \A i \in 1..Len(pm.sensor_ids), j \in 1..Len(pm.sensor_ids) :
           i < j => StrLess(pm.sensor_ids[i], pm.sensor_ids[j])

----------------------------------------------------------------------------
(* Series merger: get_data_for_sensors, client.py 280-319, and its caller   *)
(* CimaWebdropsPlugin.get_station_data, plugins.py 20-42                    *)

Digits == {"0", "1", "2", "3", "4", "5", "6", "7", "8", "9"}

\* int(ch) for a decimal digit
DigitVal(ch) == CHOOSE n \in 0..9 : DecimalDigits(n) = <<ch>>

\* int(a) for a str of decimal digits
RECURSIVE IntOf(_)
IntOf(a) == IF a = <<>> THEN 0 ELSE 10 * IntOf(SubSeq(a, 1, Len(a) - 1)) + DigitVal(a[Len(a)])

AllDigits(a) == \A i \in 1..Len(a) : a[i] \in Digits

\* a datetime, when its fields are those of a date and a time of day
datetime(year, month, day, hour, minute, second) ==
  IF month \in 1..12 /\ day \in 1..31 /\ hour \in 0..23 /\ minute \in 0..59 /\ second \in 0..59
  THEN Val(<<year, month, day, hour, minute, second>>)
  ELSE PyNone

\* datetime.strptime(a, "%Y%m%d%H%M") on the strings of the model (twelve
\* characters or a string of another shape): None stands for ValueError
strptime_compact(a) ==
  IF Len(a) = 12 /\ AllDigits(a)
  THEN datetime(IntOf(SubSeq(a, 1, 4)), IntOf(SubSeq(a, 5, 6)), IntOf(SubSeq(a, 7, 8)),
                IntOf(SubSeq(a, 9, 10)), IntOf(SubSeq(a, 11, 12)), 0)
  ELSE PyNone

\* datetime.strptime(a, "%Y-%m-%dT%H:%M:%SZ") on the strings of the model
strptime_iso(a) ==
  IF /\ Len(a) = 20
     /\ <<a[5], a[8], a[11], a[14], a[17], a[20]>> = <<"-", "-", "T", ":", ":", "Z">>
     /\ AllDigits(SubSeq(a, 1, 4) \o SubSeq(a, 6, 7) \o SubSeq(a, 9, 10)
                    \o SubSeq(a, 12, 13) \o SubSeq(a, 15, 16) \o SubSeq(a, 18, 19))
  THEN datetime(IntOf(SubSeq(a, 1, 4)), IntOf(SubSeq(a, 6, 7)), IntOf(SubSeq(a, 9, 10)),
                IntOf(SubSeq(a, 12, 13)), IntOf(SubSeq(a, 15, 16)), IntOf(SubSeq(a, 18, 19)))
  ELSE PyNone

\* client.py 308-312: the format is chosen by the caller's date_as_string
parse_observation_date(obs_date_str, date_as_string) ==
  IF date_as_string THEN strptime_compact(obs_date_str) ELSE strptime_iso(obs_date_str)

\* d[key] = value on a dict in insertion order
dict_set(d, key, value) ==
  LET pos == IndexOf(Keys(d), key)
  IN IF pos = 0 THEN Append(d, [key |-> key, value |-> value])
     ELSE [d EXCEPT ![pos].value = value]

\* f"{sensor_class}:{sensor_id}"
field_name(sensor_class, sensor_id) == sensor_class \o <<":">> \o sensor_id

\* a sensor reference: a dict whose keys sensor_class and sensor_id may be absent
SensorRef(sensor_class, sensor_id) == [sensor_class |-> sensor_class, sensor_id |-> sensor_id]

\* the answer to GET /sensors/data/{class}/{id}/ with or without
\* date_as_string=true, as the answer the request of get_data_for_sensor gets
sensor_answer(env, sensor_class, sensor_id, date_as_string) ==
  [env EXCEPT !.data = env.sensors[<<sensor_class, sensor_id>>][date_as_string]]

Merged(station_data) == [data |-> station_data, err |-> ""]

\* a sensor that reports no value at a timestamp gets a null field there
merge_reading_NullFilled(station_data, item, field, obs_date_obj) ==
  IF IndexOf(Keys(station_data), item.key) # 0
  THEN Merged([k \in 1..Len(station_data) |->
                 [station_data[k] EXCEPT !.value.fields =
                    dict_set(@, field, IF k = IndexOf(Keys(station_data), item.key)
                                       THEN item.value
                                       ELSE IF IndexOf(Keys(@), field) # 0
                                            THEN @[IndexOf(Keys(@), field)].value
                                            ELSE "None")]])
  ELSE IF obs_date_obj = PyNone THEN [data |-> station_data, err |-> "ValueError"]
  ELSE Merged(Append(station_data,
                     [key |-> item.key,
                      value |-> [observation_time |-> obs_date_obj.v,
                                 fields |-> <<[key |-> field, value |-> item.value]>>]]))

\* a timestamp seen again moves its record to the end
merge_reading_MovesToEnd(station_data, item, field, obs_date_obj) ==
  IF IndexOf(Keys(station_data), item.key) # 0
  THEN Merged(SelectSeq(station_data, LAMBDA e : e.key # item.key)
                \o <<[station_data[IndexOf(Keys(station_data), item.key)]
                        EXCEPT !.value.fields = dict_set(@, field, item.value)]>>)
  ELSE IF obs_date_obj = PyNone THEN [data |-> station_data, err |-> "ValueError"]
  ELSE Merged(Append(station_data,
                     [key |-> item.key,
                      value |-> [observation_time |-> obs_date_obj.v,
                                 fields |-> <<[key |-> field, value |-> item.value]>>]]))

\* client.py 306-317: one reading (obs_date_str, value) of a sensor put into
\* station_data, a dict by timestamp string in insertion order; obs_date_obj
\* is the parsed timestamp, which a new record needs
merge_reading(station_data, item, field, obs_date_obj) ==
  IF IndexOf(Keys(station_data), item.key) # 0
  THEN Merged([station_data EXCEPT ![IndexOf(Keys(station_data), item.key)].value.fields =
                 dict_set(@, field, item.value)])
  ELSE IF obs_date_obj = PyNone THEN [data |-> station_data, err |-> "ValueError"]
  ELSE Merged(Append(station_data,
                     [key |-> item.key,
                      value |-> [observation_time |-> obs_date_obj.v,
                                 fields |-> <<[key |-> field, value |-> item.value]>>]]))

\* for obs_date_str, value in sensor_data.items()
RECURSIVE merge_readings(_, _, _, _)
merge_readings(acc, items, field, date_as_string) ==
  IF items = <<>> \/ acc.err # "" THEN acc
  ELSE merge_readings(merge_reading(acc.data, Head(items), field,
                                    parse_observation_date(Head(items).key, date_as_string)),
                      Tail(items), field, date_as_string)

RECURSIVE collect_series(_, _, _, _, _, _)
\* the loop goes on with the next sensor unless a timestamp was rejected
next_sensor(c, w, env, sensors_info, date_as_string, acc) ==
  IF acc.err # "" THEN Ret(Raise(w, acc.err), PyNone)
  ELSE collect_series(c, w, env, Tail(sensors_info), date_as_string, acc.data)

\* client.py 303-317: sensor_data is the outcome g of get_data_for_sensor
merge_series(c, g, env, sensors_info, date_as_string, station_data) ==
  IF g.w.err # "" THEN g
  ELSE next_sensor(c, g.w, env, sensors_info, date_as_string,
                   IF ~Truthy(g.ret) THEN Merged(station_data)
                   ELSE merge_readings(Merged(station_data), g.ret.v,
                                       field_name(Head(sensors_info).sensor_class.v,
                                                  Head(sensors_info).sensor_id.v),
                                       date_as_string))

\* the loop of client.py 295-317
collect_series(c, w, env, sensors_info, date_as_string, station_data) ==
  IF sensors_info = <<>> THEN Ret(w, Val(station_data))
  ELSE IF Head(sensors_info).sensor_class = PyNone \/ Head(sensors_info).sensor_id = PyNone
       THEN Ret(Raise(w, "ValueError"), PyNone)
  ELSE merge_series(c,
                    get_data_for_sensor(c, w,
                                        sensor_answer(env, Head(sensors_info).sensor_class.v,
                                                      Head(sensors_info).sensor_id.v, TRUE),
                                        Head(sensors_info).sensor_class.v,
                                        Head(sensors_info).sensor_id.v),
                    env, sensors_info, date_as_string, station_data)

\* list(station_data.values())
values_list(g) ==
  IF g.w.err # "" THEN g
  ELSE Ret(g.w, Val([k \in 1..Len(g.ret.v) |-> g.ret.v[k].value]))

\* get_data_for_sensors, client.py 280-319
get_data_for_sensors(c, w, env, sensors_info, date_as_string) ==
  IF sensors_info = <<>> THEN Ret(w, Val(<<>>))
  ELSE values_list(collect_series(c, w, env, sensors_info, date_as_string, <<>>))

\* str.split(sep) for a separator of one character
RECURSIVE split(_, _)
split(a, sep) ==
  IF IndexOf(a, sep) = 0 THEN <<a>>
  ELSE <<SubSeq(a, 1, IndexOf(a, sep) - 1)>> \o split(SubSeq(a, IndexOf(a, sep) + 1, Len(a)), sep)

\* plugins.py 27-38: the sensor references of the variable mappings
RECURSIVE sensors_info_of(_)
sensors_info_of(variable_mappings) ==
  IF variable_mappings = <<>> THEN <<>>
  ELSE LET cima_sensor_info_parts == split(Head(variable_mappings), ":")
       IN (IF Len(cima_sensor_info_parts) = 2
           THEN <<SensorRef(Val(cima_sensor_info_parts[1]), Val(cima_sensor_info_parts[2]))>>
           ELSE <<>>) \o sensors_info_of(Tail(variable_mappings))

\* CimaWebdropsPlugin.get_station_data, plugins.py 20-42 (no date range)
get_station_data(c, w, env, variable_mappings) ==
  get_data_for_sensors(c, w, env, sensors_info_of(variable_mappings), TRUE)

----------------------------------------------------------------------------
(* Specification of the series merger: the sensor references, the flag and *)
(* what the upstream reports for each sensor are drawn at the start        *)

\* longest sequence of sensor references or variable mappings
MaxRefs == 2

\* the timestamp of minute n of 2025-01-01 in the two formats of the API
CompactStamp(n) == <<"2", "0", "2", "5", "0", "1", "0", "1", "0", "0", "0">> \o DecimalDigits(n)
IsoStamp(n) ==
  <<"2", "0", "2", "5", "-", "0", "1", "-", "0", "1", "T", "0", "0", ":", "0">>
    \o DecimalDigits(n) \o <<":", "0", "0", "Z">>

\* an upstream that reports values at the given minutes: the timeline is in
\* the compact format when the request says date_as_string=true, in ISO-8601
\* otherwise
Reports(minutes, values) ==
  [date_as_string \in BOOLEAN |->
     ApiJson(Val(<<Series([i \in 1..Len(minutes) |->
                             IF date_as_string THEN CompactStamp(minutes[i])
                             ELSE IsoStamp(minutes[i])],
                          values)>>))]

\* an upstream that answers the same whatever the request asks
Answers(resp) == [date_as_string \in BOOLEAN |-> resp]

WellFormedReports ==
  {Reports(<<>>, <<>>), Reports(<<1, 2>>, <<7, 8>>), Reports(<<3, 2>>, <<9, 5>>),
   Reports(<<1, 1>>, <<7, 8>>)}

SensorReports ==
  WellFormedReports
    \cup {Reports(<<1, 2>>, <<7>>), Reports(<<1>>, <<7, 8>>),
          Answers(ApiStatus(500)), Answers(ApiJson(Val(<<>>))),
          Answers(ApiJson(Val(<<Series(<<<<"b", "a", "d">>>>, <<7>>)>>)))}

SensorT1 == <<ClassT, <<"1">>>>
SensorT2 == <<ClassT, <<"2">>>>
Sensors == {SensorT1, SensorT2}

RefOf(sensor) == SensorRef(Val(sensor[1]), Val(sensor[2]))

\* sensor references a caller may pass: two without one of the keys
SensorRefs ==
  {RefOf(sensor) : sensor \in Sensors}
    \cup {SensorRef(PyNone, Val(<<"1">>)), SensorRef(Val(ClassT), PyNone)}

\* cima_sensor_info strings of variable mappings: with one colon, none, two
MappingStrings ==
  {<<"T", ":", "1">>, <<"T", ":", "2">>, <<"T">>, <<"T", ":", "1", ":", "2">>}

EnvSensors(idp, sensors) ==
  [idp |-> idp, delay |-> 0, gap |-> 0, classes |-> ApiDown, list |-> NoLists,
   data |-> ApiDown, sensors |-> sensors]

\* what the upstream answers for each sensor: anything for the first sensor,
\* a well-formed series for the second
SensorAnswers ==
  {sensors \in [Sensors -> SensorReports] : sensors[SensorT2] \in WellFormedReports}

MergeInputs ==
  {[caller |-> "client", sensors_info |-> refs, variable_mappings |-> <<>>,
    date_as_string |-> f, idp |-> idp, sensors |-> sensors] :
     refs \in SeqsUpTo(SensorRefs, MaxRefs), f \in BOOLEAN, idp \in IdpBasic,
     sensors \in SensorAnswers}
  \cup
  {[caller |-> "plugin", sensors_info |-> <<>>, variable_mappings |-> ms,
    date_as_string |-> TRUE, idp |-> idp, sensors |-> sensors] :
     ms \in SeqsUpTo(MappingStrings, MaxRefs), idp \in {IdpUp},
     sensors \in SensorAnswers}

InitMerge ==
  /\ now = 0
  /\ ticks = 0
  /\ tok = [c \in Clients |-> NewSlot]
  /\ cache = <<>>
  /\ last = NoCall
  /\ input \in MergeInputs

\* a caller runs get_data_for_sensors on a client it holds
CallGetDataForSensors(c) ==
  /\ input.caller = "client"
  /\ LET env == EnvSensors(input.idp, input.sensors) IN
     Call(c, "get_data_for_sensors", <<input.sensors_info, input.date_as_string>>, env,
          get_data_for_sensors(c, World(c), env, input.sensors_info, input.date_as_string))

\* models.py 39-49: get_api_client() builds a new client for the connection
get_api_client(c) == [World(c) EXCEPT !.slot = NewSlot]

\* the host runs the plugin's get_station_data for a station link of the
\* connection of client c; the client built for the run is dropped after it
CallGetStationData(c) ==
  /\ input.caller = "plugin"
  /\ LET env == EnvSensors(input.idp, input.sensors)
         g == get_station_data(c, get_api_client(c), env, input.variable_mappings)
     IN /\ ticks + (g.w.now - now) <= MaxTicks
        /\ now' = g.w.now
        /\ ticks' = ticks + (g.w.now - now)
        /\ cache' = g.w.cache
        /\ last' = [n |-> 1 - last.n, op |-> "get_station_data", c |-> c,
                    arg |-> <<input.variable_mappings>>, env |-> env,
                    now0 |-> now, slot0 |-> NewSlot,
                    ntok |-> g.w.ntok, nres |-> g.w.nres, err |-> g.w.err,
                    ret |-> IF g.w.err = "" THEN g.ret ELSE PyNone,
                    tret |-> g.w.now]
        /\ UNCHANGED <<tok, input>>

NextMerge ==
  \/ CallGetDataForSensors("c2")
  \/ CallGetStationData("c1")

SpecMerge == InitMerge /\ [][NextMerge]_vars

----------------------------------------------------------------------------
(* Properties of the series merger (SpecMerge) *)

MergeDone == last.op = "get_data_for_sensors" /\ last.err = ""

\* the composite records returned
Records == last.ret.v

\* the sensors of the references passed, in the order given
Requested == [i \in 1..Len(last.arg[1]) |-> <<last.arg[1][i].sensor_class.v, last.arg[1][i].sensor_id.v>>]

\* the series the upstream sent for a sensor in answer to the request made
\* for it (date_as_string=true)
SeriesSent(sensor) == last.env.sensors[sensor][TRUE].body.v[1]

\* the timestamps at which a sensor reported a value, in upstream order, and
\* the values it reported at a timestamp
TimelineOf(sensor) ==
  LET b == SeriesSent(sensor)
  IN SubSeq(b.timeline, 1, IF Len(b.timeline) < Len(b.values) THEN Len(b.timeline)
                           ELSE Len(b.values))
ValuesAt(sensor, t) ==
  {SeriesSent(sensor).values[i] : i \in {j \in 1..Len(TimelineOf(sensor)) : TimelineOf(sensor)[j] = t}}

\* the instant a timestamp string of either format stands for
InstantOf(t) ==
  LET n == CHOOSE m \in 0..9 : t \in {CompactStamp(m), IsoStamp(m)}
  IN <<2025, 1, 1, 0, n, 0>>

\* C11: a merge that returns has exactly one record per distinct timestamp
\* reported by a requested sensor, and the record of timestamp t has the field
\* "{class}:{id}", with a value that sensor reported at t, if and only if the
\* sensor (class, id) was requested and reported t; it has no other field.
C11_MergeSparsity ==
  MergeDone =>
    LET T == UNION {Range(TimelineOf(Requested[i])) : i \in 1..Len(Requested)} IN
    /\ Len(Records) = Cardinality(T)
    /\ \A t \in T :
         \E k \in 1..Len(Records) :
           /\ Records[k].observation_time = InstantOf(t)
           /\ \A j \in 1..Len(Records) : Records[j].observation_time = InstantOf(t) => j = k
           /\ \A sensor \in Sensors :
                LET pos == IndexOf(Keys(Records[k].fields), sensor[1] \o <<":">> \o sensor[2])
                IN /\ pos # 0 <=> (sensor \in Range(Requested) /\ t \in Range(TimelineOf(sensor)))
                   /\ pos # 0 => Records[k].fields[pos].value \in ValuesAt(sensor, t)
           /\ Len(Records[k].fields) =
                Cardinality({sensor \in Range(Requested) : t \in Range(TimelineOf(sensor))})

\* two sensors, one reporting t1 and t2, the other t2 and t3: three records,
\* one of them with both fields, the two others with one
C11_Witness ==
  /\ MergeDone
  /\ Len(Records) = 3
  /\ Cardinality({k \in 1..3 : Len(Records[k].fields) = 2}) = 1
  /\ Cardinality({k \in 1..3 : Len(Records[k].fields) = 1}) = 2

\* a sequence without the later occurrences of its elements
RECURSIVE FirstOccurrences(_)
FirstOccurrences(seq) ==
  IF seq = <<>> THEN <<>>
  ELSE LET front == SubSeq(seq, 1, Len(seq) - 1)
       IN IF seq[Len(seq)] \in Range(front) THEN FirstOccurrences(front)
          ELSE Append(FirstOccurrences(front), seq[Len(seq)])

\* the timestamps in the order the merge meets them: the requested sensors in
\* the order given, the series of each in upstream order
RECURSIVE Encountered(_)
Encountered(sensors) ==
  IF sensors = <<>> THEN <<>> ELSE TimelineOf(Head(sensors)) \o Encountered(Tail(sensors))

\* C12: a merge that returns lists the records in first-seen order: the k-th
\* record is the one of the k-th distinct timestamp met when going through the
\* sensors in the order given and through each series in upstream order.
C12_FirstSeenOrder ==
  MergeDone =>
    LET seen == FirstOccurrences(Encountered(Requested)) IN
    /\ Len(Records) = Len(seen)
    /\ \A k \in 1..Len(Records) : Records[k].observation_time = InstantOf(seen[k])

\* the second sensor reported a timestamp already seen and an earlier instant
\* than the ones seen: the records are not in chronological order
C12_Witness ==
  /\ MergeDone
  /\ Len(Requested) = 2
  /\ Range(TimelineOf(Requested[1])) \cap Range(TimelineOf(Requested[2])) # {}
  /\ Len(Records) = 3
  /\ Records[1].observation_time[5] > Records[3].observation_time[5]

\* a sensor reference without sensor_class or without sensor_id
Malformed(ref) == ref.sensor_class = PyNone \/ ref.sensor_id = PyNone

\* C13: a merge whose sensor references include a malformed one, at any
\* position, ends with the malformed-input error, without a result and
\* without any token request or sensor-data request.
C13_MalformedFailsFast ==
  (last.op = "get_data_for_sensors" /\ \E i \in 1..Len(last.arg[1]) : Malformed(last.arg[1][i]))
    => (last.err = "ValueError" /\ last.ret = PyNone /\ last.ntok = 0 /\ last.nres = 0)

\* the number of colons of a mapping string
Colons(a) == Cardinality({i \in 1..Len(a) : a[i] = ":"})

\* C14: a collection run for a station link with a mapping string that has
\* not exactly one colon ends with an error: the string is neither passed on
\* as a sensor reference nor left out silently.
C14_MappingRejected ==
  (last.op = "get_station_data" /\ \E i \in 1..Len(last.arg[1]) : Colons(last.arg[1][i]) # 1)
    => last.err # ""

\* C20: whatever the date_as_string flag of the merge, when the token is
\* granted and every requested sensor gets a well-formed answer in the format
\* its request asked for, the merge parses every timestamp and returns.
C20_FormatAgreement ==
  (/\ last.op = "get_data_for_sensors"
   /\ last.env.idp = IdpUp
   /\ \A i \in 1..Len(last.arg[1]) :
        /\ ~Malformed(last.arg[1][i])
        /\ last.env.sensors[<<last.arg[1][i].sensor_class.v, last.arg[1][i].sensor_id.v>>]
             \in WellFormedReports)
    => last.err = ""

----------------------------------------------------------------------------
(* Properties of get_data_for_sensor (Spec) *)

\* C15: get_data_for_sensor fails when the upstream answers with a timeline
\* and values of different lengths; it returns no mapping built from a prefix.
C15_SeriesShapeChecked ==
  (/\ last.op = "get_data_for_sensor"
   /\ Truthy(last.env.data.body)
   /\ Len(last.env.data.body.v[1].timeline) # Len(last.env.data.body.v[1].values))
    => last.err # ""

----------------------------------------------------------------------------
(* Specification of the cache shared by two credential sets: the clients   *)
(* c1 and c3 run the cached operations against their own upstreams         *)

NextIsolation ==
  \/ CallGetStationParameters("c1", {IdpUp}, {0})
  \/ CallGetSensorClasses("c3", {IdpUp}, {0}, {0})
  \/ CallGetSensorsListForClass("c3", {IdpUp}, {0}, {0})
  \/ CallGetStations("c3", {IdpUp}, {0})
  \/ CallGetStationParameters("c3", {IdpUp}, {0})

SpecIsolation == Init /\ [][NextIsolation]_vars

\* no client built for the credential set of client c holds or has held a token,
\* the call of c that just ended apart: nothing was ever fetched with them
NeverFetched(c) ==
  /\ last.slot0 = NewSlot
  /\ \A d \in Clients \ {c} : credentials(d) = credentials(c) => tok[d] = NewSlot

\* C16: a cached operation never returns to a client data fetched by a client
\* of another credential set: while nothing has been fetched with its own
\* credentials, an operation that returns has asked for a token.
C16_CacheIsolation ==
  (last.op \in CachedOps /\ use_cache(last.c) /\ last.err = "" /\ NeverFetched(last.c))
    => last.ntok >= 1

----------------------------------------------------------------------------
(* Host lookup endpoints: views.py and utils.py *)

\* the CimaWebDropsConnection rows of the host: the client each is built for
ConnectionRows == [pk \in {"1", "3"} |-> IF pk = "1" THEN "c1" ELSE "c3"]

\* get_object_or_none(CimaWebDropsConnection, pk=network_connection_id)
get_object_or_none(pk) == IF pk \in DOMAIN ConnectionRows THEN ConnectionRows[pk] ELSE "None"

\* SENSOR_CLASS_MAP of constants.py: the English names of the sensor classes
SENSOR_CLASS_MAP == <<[key |-> ClassT, value |-> <<"T", "e", "m", "p">>]>>

\* SENSOR_CLASS_MAP.get(param_class, param_class)
param_class_english(param_class) ==
  IF IndexOf(Keys(SENSOR_CLASS_MAP), param_class) # 0
  THEN SENSOR_CLASS_MAP[IndexOf(Keys(SENSOR_CLASS_MAP), param_class)].value
  ELSE param_class

JsonResponse(body, status) == [status |-> status, body |-> body]

\* utils.py 9-16: a {label, value} entry per station of the directory
stations_list(g) ==
  IF g.w.err # "" THEN Ret(g.w, PyNone)
  ELSE Ret(g.w, Val(JsonResponse(
                      [k \in 1..Len(g.ret.v) |->
                         [label |-> g.ret.v[k].value.station_name,
                          value |-> g.ret.v[k].value.station_id]], 200)))

\* utils.py 41-47: the entries of one parameter, one per sensor id; the label
\* is f"{param_class_english} ({param_unit}) - {sensor_id}"
param_infos(param) ==
  [k \in 1..Len(param.sensor_ids) |->
     [label |-> <<param_class_english(param.class), param.unit, param.sensor_ids[k]>>,
      value |-> field_name(param.class, param.sensor_ids[k])]]

\* utils.py 30-47
RECURSIVE params_infos(_)
params_infos(parameters) ==
  IF parameters = <<>> THEN <<>>
  ELSE param_infos(Head(parameters)) \o params_infos(Tail(parameters))

\* utils.py 27-49
parameters_list(g) ==
  IF g.w.err # "" THEN Ret(g.w, PyNone)
  ELSE Ret(g.w, Val(JsonResponse(params_infos(g.ret.v), 200)))

BadRequest(w, message) == Ret(w, Val(JsonResponse([error |-> message], 400)))

\* get_cima_webdrops_stations_for_connection, views.py 9-28
get_cima_webdrops_stations_for_connection(request, w, env) ==
  IF ~TruthyStr(request.connection_id)
  THEN BadRequest(w, "Network connection ID is required.")
  ELSE IF get_object_or_none(request.connection_id) = "None"
  THEN BadRequest(w, "The selected connection is not a CIMA WebDrops API Connection")
  ELSE stations_list(get_stations(get_object_or_none(request.connection_id),
                                  [w EXCEPT !.slot = NewSlot], env))

\* the station_id parameter is not checked before the client is called
get_cima_webdrops_variables_for_connection_NoStationCheck(request, w, env) ==
  IF ~TruthyStr(request.connection_id)
  THEN BadRequest(w, "Network connection ID is required.")
  ELSE IF get_object_or_none(request.connection_id) = "None"
  THEN BadRequest(w, "The selected connection is not a CIMA WebDrops API Connection")
  ELSE parameters_list(get_station_parameters(get_object_or_none(request.connection_id),
                                              [w EXCEPT !.slot = NewSlot], env,
                                              request.station_id.v))

\* get_cima_webdrops_variables_for_connection, views.py 31-57
get_cima_webdrops_variables_for_connection(request, w, env) ==
  IF ~TruthyStr(request.connection_id)
  THEN BadRequest(w, "Network connection ID is required.")
  ELSE IF get_object_or_none(request.connection_id) = "None"
  THEN BadRequest(w, "The selected connection is not a CIMA WebDrops API Connection")
  ELSE IF ~Truthy(request.station_id)
  THEN BadRequest(w, "Station ID is required.")
  ELSE parameters_list(get_station_parameters(get_object_or_none(request.connection_id),
                                              [w EXCEPT !.slot = NewSlot], env,
                                              request.station_id.v))

----------------------------------------------------------------------------
(* Specification of the host lookup endpoints: the UI queries the two      *)
(* views with any parameters while the upstreams answer anything           *)

\* the connection_id of a query: absent, empty, the pk of a CIMA connection
\* or the pk of no CIMA connection
ConnectionIds == {"None", "", "1", "3", "9"}

\* the station_id of a query: absent, empty, a station of the directory or
\* a station that is not in it
StationIdParams ==
  {PyNone, Val(<<>>)}
    \cup {Val(station_id) : station_id \in StationIds}
    \cup {Val(generate_station_id(Float(1), Float(1), DefaultPrecision))}

\* the world of a request of the host: no client is built yet
HostWorld == [now |-> now, slot |-> NewSlot, cache |-> cache, ntok |-> 0, nres |-> 0, err |-> ""]

\* the host serves a query with a view: g is the outcome of the view
Serve(view, request, env, g) ==
  /\ ticks + (g.w.now - now) <= MaxTicks
  /\ now' = g.w.now
  /\ ticks' = ticks + (g.w.now - now)
  /\ cache' = g.w.cache
  /\ last' = [n |-> 1 - last.n, op |-> view, c |-> get_object_or_none(request.connection_id),
              arg |-> <<request>>, env |-> env, now0 |-> now, slot0 |-> NewSlot,
              ntok |-> g.w.ntok, nres |-> g.w.nres, err |-> g.w.err,
              ret |-> IF g.w.err = "" THEN g.ret ELSE PyNone,
              tret |-> g.w.now]
  /\ UNCHANGED <<tok, input>>

ServeStations ==
  \E connection_id \in ConnectionIds, idp \in {IdpUp} :
    \E classes \in ClassesAnswers, answer \in ListAnswers :
      LET env == Env(idp, 0, 0, classes, [NoLists EXCEPT ![ClassT] = answer], ApiDown)
          request == [connection_id |-> connection_id, station_id |-> PyNone]
      IN Serve("get_cima_webdrops_stations_for_connection", request, env,
               get_cima_webdrops_stations_for_connection(request, HostWorld, env))

ServeVariables ==
  \E connection_id \in ConnectionIds, station_id \in StationIdParams, idp \in {IdpUp} :
    \E classes \in ClassesAnswers, answer \in ListAnswers :
      LET env == Env(idp, 0, 0, classes, [NoLists EXCEPT ![ClassT] = answer], ApiDown)
          request == [connection_id |-> connection_id, station_id |-> station_id]
      IN Serve("get_cima_webdrops_variables_for_connection", request, env,
               get_cima_webdrops_variables_for_connection(request, HostWorld, env))

NextViews == ServeStations \/ ServeVariables

SpecViews == Init /\ [][NextViews]_vars

(* Properties of the host lookup endpoints (SpecViews) *)

StationsView == "get_cima_webdrops_stations_for_connection"
VariablesView == "get_cima_webdrops_variables_for_connection"

\* a query that lacks a required parameter or names no CIMA connection
Rejected(call) ==
  \/ ~TruthyStr(call.arg[1].connection_id)
  \/ call.arg[1].connection_id \notin DOMAIN ConnectionRows
  \/ call.op = VariablesView /\ ~Truthy(call.arg[1].station_id)

\* the client operation behind a view, run by a new client of the connection
\* on a given store
ClientRun(call, store) ==
  Replay([op |-> IF call.op = StationsView THEN "get_stations" ELSE "get_station_parameters",
          c |-> ConnectionRows[call.arg[1].connection_id], env |-> call.env,
          arg |-> <<call.arg[1].station_id.v>>, now0 |-> call.now0, slot0 |-> NewSlot],
         store)

\* the body lists what the client returned: a station per entry, with its id
\* as value and its name as label, or a sensor of a parameter per entry, with
\* "{class}:{sensor_id}" as value
ListsResult(call, result) ==
  IF call.op = StationsView
  THEN /\ Len(call.ret.v.body) = Len(result.v)
       /\ \A k \in 1..Len(result.v) :
            /\ call.ret.v.body[k].value = result.v[k].key
            /\ call.ret.v.body[k].label = result.v[k].value.station_name
  ELSE /\ {<<e.value, e.label[3]>> : e \in Range(call.ret.v.body)} =
            UNION {{<<pm.class \o <<":">> \o id, id>> : id \in Range(pm.sensor_ids)} :
                     pm \in Range(result.v)}
       /\ \A i \in 1..Len(call.ret.v.body), j \in 1..Len(call.ret.v.body) :
            i # j => call.ret.v.body[i].value # call.ret.v.body[j].value

\* a rejected query gets a 400 error object and nothing else happens
RejectedWith400 ==
  /\ last'.err = ""
  /\ last'.ret.v.status = 400
  /\ DOMAIN last'.ret.v.body = {"error"}
  /\ last'.ntok = 0 /\ last'.nres = 0
  /\ cache' = cache

\* C17 as stated: a query is answered 400, without any client operation, when
\* it lacks connection_id or names no CIMA connection (or, for the parameter
\* list, lacks station_id), and with the {label, value} list produced from
\* the client in every other case.
C17_LookupAlwaysAnswers ==
  [][(IsCall /\ last'.op \in {StationsView, VariablesView})
     => IF Rejected(last') THEN RejectedWith400
        ELSE /\ last'.err = ""
             /\ last'.ret.v.status = 200
             /\ ListsResult(last', ClientRun(last', cache).ret)]_vars

\* C17: a query is answered 400, without any client operation, when it lacks
\* connection_id or names no CIMA connection (or, for the parameter list,
\* lacks station_id); in every other case the view runs the client operation
\* on a new client of the connection, answers 200 with the {label, value}
\* list of its result when it returns, and lets its error propagate when it
\* fails.
C17_LookupEndpoints ==
  [][(IsCall /\ last'.op \in {StationsView, VariablesView})
     => IF Rejected(last') THEN RejectedWith400
        ELSE LET r == ClientRun(last', cache) IN
             /\ last'.ntok = r.ntok /\ last'.nres = r.nres /\ last'.err = r.err
             /\ r.err = "" => /\ last'.ret.v.status = 200
                              /\ ListsResult(last', r.ret)
             /\ r.err # "" => last'.ret = PyNone]_vars

\* a parameter query without station_id for a connection whose directory is
\* cached: it is answered 400 although the client could have answered
C17_Witness ==
  /\ last.op = VariablesView
  /\ last.arg[1].connection_id = "1"
  /\ last.arg[1].station_id = PyNone
  /\ last.ret # PyNone /\ last.ret.v.status = 400
  /\ KeyStations("c1") \in DOMAIN cache

----------------------------------------------------------------------------
(* Specification of concurrent token refresh: two execution contexts run   *)
(* _ensure_token on client c1, a step at a time, in any interleaving       *)

Contexts == {"A", "B"}

\* no response received (yet)
NoAnswer == IdpDown

\* a context about to call _ensure_token
Entering == [pc |-> "call", data |-> NoAnswer, expiry |-> 0, err |-> ""]

\* answers of the token endpoint to the two refreshes
RefreshAnswers ==
  {IdpDown, IdpStatus(200), IdpToken("tokA", Omitted), IdpToken("tokB", Seconds(31)),
   IdpToken("tokB", NotANumber)}

\* the slot of a client whose token has expired
ExpiredSlot == [access_token |-> "tok0", expiry |-> TokenMargin]

InitRefresh ==
  /\ now = 0
  /\ ticks = 0
  /\ tok \in {[c \in Clients |-> IF c = "c1" THEN slot ELSE NewSlot] : slot \in {NewSlot, ExpiredSlot}}
  /\ cache = <<>>
  /\ last = NoCall
  /\ input = [x \in Contexts |-> Entering]

\* context x moves to position pc
Goto(x, pc) == input' = [input EXCEPT ![x].pc = pc]

\* context x leaves _ensure_token with exception e
Throw(x, e) == input' = [input EXCEPT ![x].pc = "return", ![x].err = e]

\* client.py 30-33: the test of the token in the slot
TestToken(x) ==
  /\ input[x].pc = "call"
  /\ IF TruthyStr(tok["c1"].access_token) /\ now < tok["c1"].expiry - TokenMargin
     THEN Goto(x, "return")
     ELSE Goto(x, "post")
  /\ UNCHANGED <<now, ticks, tok, cache, last>>

\* client.py 36-47: the token request and its response
PostToken(x) ==
  /\ input[x].pc = "post"
  /\ \E r \in RefreshAnswers :
       IF r.status = TransportFailure THEN Throw(x, "ConnectionError")
       ELSE IF raise_for_status(r.status) THEN Throw(x, "HTTPError")
       ELSE input' = [input EXCEPT ![x].pc = "token", ![x].data = r]
  /\ UNCHANGED <<now, ticks, tok, cache, last>>

\* client.py 48: self._access_token = data["access_token"]
SetAccessToken(x) ==
  /\ input[x].pc = "token"
  /\ IF input[x].data.access_token = "None"
     THEN Throw(x, "KeyError") /\ UNCHANGED tok
     ELSE /\ tok' = [tok EXCEPT !["c1"].access_token = input[x].data.access_token]
          /\ Goto(x, "expiry")
  /\ UNCHANGED <<now, ticks, cache, last>>

\* client.py 50: self._token_expiry_epoch = int(time.time()) + int(...)
SetTokenExpiry(x) ==
  /\ input[x].pc = "expiry"
  /\ IF input[x].data.expires_in.k = "bad"
     THEN Throw(x, "ValueError") /\ UNCHANGED tok
     ELSE LET expiry == now + (IF input[x].data.expires_in.k = "omitted"
                               THEN DefaultExpiresIn
                               ELSE input[x].data.expires_in.v)
          IN /\ tok' = [tok EXCEPT !["c1"].expiry = expiry]
             /\ input' = [input EXCEPT ![x].pc = "return", ![x].expiry = expiry]
  /\ UNCHANGED <<now, ticks, cache, last>>

NextRefresh ==
  \/ TickBy({1})
  \/ \E x \in Contexts : TestToken(x)
  \/ \E x \in Contexts : PostToken(x)
  \/ \E x \in Contexts : SetAccessToken(x)
  \/ \E x \in Contexts : SetTokenExpiry(x)

SpecRefresh == InitRefresh /\ [][NextRefresh]_vars

(* Properties of concurrent token refresh (SpecRefresh) *)

\* context x has refreshed the token and returned
Refreshed(x) == input[x].pc = "return" /\ input[x].err = "" /\ input[x].data # NoAnswer

\* C18: when both contexts have refreshed the token and returned, the slot
\* holds the access token and the expiry written by one and the same refresh.
C18_LastWriteWins ==
  (\A x \in Contexts : Refreshed(x))
    => \E x \in Contexts :
         tok["c1"] = [access_token |-> input[x].data.access_token, expiry |-> input[x].expiry]

----------------------------------------------------------------------------
(* Specification of concurrent cache misses: two callers run               *)
(* get_sensor_classes on clients of connection c1, a step at a time, in    *)
(* any interleaving, over the one shared store                             *)

\* nothing written to the store (yet)
NoWrite == [key |-> <<>>, value |-> PyNone, timeout |-> 0, at |-> 0, nth |-> 0]

\* a caller about to call get_sensor_classes
Calling == [pc |-> "call", value |-> PyNone, err |-> "", write |-> NoWrite]

InitMiss ==
  /\ now = 0
  /\ ticks = 0
  /\ tok = [c \in Clients |-> NewSlot]
  /\ cache = <<>>
  /\ last = NoCall
  /\ input = [x \in Contexts |-> Calling]

\* how many writes were made to the store
Writes == Cardinality({x \in Contexts : input[x].write.nth > 0})

\* client.py 59: the test of the store
TestCache(x) ==
  /\ input[x].pc = "call"
  /\ IF use_cache("c1") /\ Truthy(cache_get(HostWorld, KeyClasses("c1")))
     THEN Goto(x, "hit")
     ELSE Goto(x, "get")
  /\ UNCHANGED <<now, ticks, tok, cache, last>>

\* client.py 60: return cache.get(cache_key)
ReturnCached(x) ==
  /\ input[x].pc = "hit"
  /\ input' = [input EXCEPT ![x].pc = "return",
                            ![x].value = cache_get(HostWorld, KeyClasses("c1"))]
  /\ UNCHANGED <<now, ticks, tok, cache, last>>

\* the outcome g of the request of client.py 62-66
Fetched(x, g) ==
  /\ input' = IF g.w.err # ""
              THEN [input EXCEPT ![x].pc = "return", ![x].err = g.w.err]
              ELSE [input EXCEPT ![x].pc = "set", ![x].value = g.ret]
  /\ UNCHANGED <<now, ticks, tok, cache, last>>

\* client.py 62-66: the request, with the token of the caller's own client
FetchClasses(x) ==
  /\ input[x].pc = "get"
  /\ \E idp \in IdpBasic, classes \in ClassesAnswers :
       Fetched(x, http_get(HostWorld, Env(idp, 0, 0, classes, NoLists, ApiDown), classes))

\* client.py 68-72: cache.set(cache_key, sensor_classes, 86400) and return
StoreClasses(x) ==
  /\ input[x].pc = "set"
  /\ cache' = IF use_cache("c1")
              THEN cache_set(HostWorld, KeyClasses("c1"), input[x].value, CacheTTL).cache
              ELSE cache
  /\ input' = [input EXCEPT ![x].pc = "return",
                            ![x].write = [key |-> KeyClasses("c1"), value |-> input[x].value,
                                          timeout |-> CacheTTL, at |-> now, nth |-> Writes + 1]]
  /\ UNCHANGED <<now, ticks, tok, last>>

NextMiss ==
  \/ TickBy({1})
  \/ \E x \in Contexts : TestCache(x)
  \/ \E x \in Contexts : ReturnCached(x)
  \/ \E x \in Contexts : FetchClasses(x)
  \/ \E x \in Contexts : StoreClasses(x)

SpecMiss == InitMiss /\ [][NextMiss]_vars

(* Properties of concurrent cache misses (SpecMiss) *)

\* both callers missed, fetched and stored
BothStored == \A x \in Contexts : input[x].write.nth > 0

\* C19 as stated: when both callers miss, the two writes store the same value
\* under the same key with the same 24h TTL.
C19_WritesIdempotent ==
  BothStored
    => \A x \in Contexts, y \in Contexts :
         /\ input[x].write.key = input[y].write.key
         /\ input[x].write.value = input[y].write.value
         /\ input[x].write.timeout = input[y].write.timeout

\* C19: when both callers miss, the two writes use the key of the operation
\* and the 24h TTL, each stores the value its own request returned, and the
\* entry left in the store is the one of the later write: it depends on the
\* order of the writes exactly when the two requests returned different
\* values.
C19_LastWriteStays ==
  BothStored
    => /\ \A x \in Contexts :
            /\ input[x].write.key = KeyClasses("c1")
            /\ input[x].write.timeout = 86400
            /\ input[x].write.value = input[x].value
       /\ \E x \in Contexts :
            /\ input[x].write.nth = 2
            /\ cache[KeyClasses("c1")] =
                 [value |-> input[x].value, expires |-> input[x].write.at + 86400]

\* both callers missed and stored, and their requests returned different
\* class lists, one of them non-empty
C19_Witness ==
  /\ BothStored
  /\ input["A"].value # input["B"].value
  /\ Truthy(input["A"].value)
  /\ input["A"].write.nth = 2

----------------------------------------------------------------------------
(* Specification of malformed and empty listings: listings with raw        *)
(* sensors that lack lat, lng or both, empty and null listings, and no     *)
(* classes at all                                                          *)

a9 == RawSensor(IdInt(4), Val(<<"A">>), Num(17662061), PyNone, Val(<<"F">>))
a10 == RawSensor(IdNone, PyNone, PyNone, PyNone, PyNone)

DropSensors == {a1, a2, a7, a9, a10}

DropInputs ==
  {[sensor_classes |-> cs, coord_precision |-> DefaultPrecision,
    list |-> [sc \in Classes |-> IF sc = ClassT THEN ApiJson(Val(lt)) ELSE lp]] :
     cs \in {<<>>, <<ClassT>>, <<ClassT, ClassP>>, <<ClassP, ClassT>>},
     lt \in SeqsUpTo(DropSensors, MaxListLen),
     lp \in {ApiJson(PyNone), ApiJson(Val(<<>>)), ApiJson(Val(<<a7>>)), ApiJson(Val(<<a2>>))}}

InitDrop ==
  /\ now = 0
  /\ ticks = 0
  /\ tok = [c \in Clients |-> NewSlot]
  /\ cache = <<>>
  /\ last = NoCall
  /\ input \in DropInputs

NextDrop ==
  \/ CallGetUniqueStations("c2")
  \/ CallGetStations("c2", {IdpUp}, {0})

SpecDrop == InitDrop /\ [][NextDrop]_vars

(* Properties of malformed and empty listings (SpecDrop) *)

WithLatLng(s) == s.lat # PyNone /\ s.lng # PyNone

\* the listings without their raw sensors that lack lat or lng
WellFormedOnly(list) ==
  [sc \in Classes |-> ApiJson(Val(SelectSeq(Listing(list, sc), WithLatLng)))]

\* the requested classes without sensor_class
Without(sensor_classes, sensor_class) ==
  SelectSeq(sensor_classes, LAMBDA sc : sc # sensor_class)

\* C21: the aggregator never fails on a raw sensor without lat or lng; it
\* returns what it returns on the listings without those sensors; every
\* station, parameter, unit and sensor id of the output comes from a raw
\* sensor with lat and lng; a requested class with an empty listing changes
\* nothing; no classes give no stations, and the directory is empty when the
\* upstream reports no classes or no sensors.
C21_MalformedDropped ==
  /\ last.op = "get_unique_stations_with_parameters" =>
       /\ last.err = ""
       /\ AggregateOf(input.sensor_classes, WellFormedOnly(input.list), input.coord_precision)
            = last.ret
       /\ \A k \in 1..Len(Out) :
            /\ \E e \in Range(Processed(input.sensor_classes, input.list)) :
                 Located(e) /\ Rounded(e) = CoordsOf(Out[k])
            /\ \A pm \in Range(Out[k].parameters) :
                 LET cs == Range(Contributors(k, pm.class)) IN
                 /\ cs # {}
                 /\ pm.unit \in {e.s.mu : e \in cs}
                 /\ Range(pm.sensor_ids) \subseteq {str(e.s.id) : e \in cs}
       /\ \A sc \in Range(input.sensor_classes) :
            Listing(input.list, sc) = <<>> =>
              AggregateOf(Without(input.sensor_classes, sc), input.list, input.coord_precision)
                = last.ret
       /\ input.sensor_classes = <<>> => Out = <<>>
  /\ (last.op = "get_stations" /\ last.env.classes = ApiJson(Val(<<>>))) =>
       /\ last.err = "" /\ last.ret = Val(<<>>) /\ last.nres = 1
  /\ (/\ last.op = "get_stations"
      /\ last.env.classes = ApiJson(Val(<<ClassT>>))
      /\ last.env.list[ClassT] = ApiJson(Val(<<>>))) =>
       /\ last.err = "" /\ last.ret = Val(<<>>)

\* a listing with a raw sensor without lat or lng before one with both: the
\* output has the station of the second
C21_Witness ==
  /\ Aggregated
  /\ Len(Out) >= 1
  /\ \E sc \in Range(input.sensor_classes) :
       LET l == Listing(input.list, sc) IN
       \E i \in 1..Len(l), j \in 1..Len(l) : i < j /\ ~WithLatLng(l[i]) /\ WithLatLng(l[j])

----------------------------------------------------------------------------
(* Specification of staleness between cache layers: the caching client is  *)
(* called while days pass; the store keeps an expired entry until it is    *)
(* overwritten, and input counts the advances of the clock                 *)

\* how many times the clock may advance in this specification
MaxElapses == 4

InitStale ==
  /\ now = 0
  /\ ticks = 0
  /\ tok = [c \in Clients |-> NewSlot]
  /\ cache = <<>>
  /\ last = NoCall
  /\ input = 0

\* the clock advances by a second, or to the last second of a 24h window
Elapse ==
  \E d \in TickSteps :
    /\ input < MaxElapses
    /\ input' = input + 1
    /\ now' = now + d
    /\ UNCHANGED <<ticks, tok, cache, last>>

\* the upstream lists class T, with one sensor or with none
StaleEnvs ==
  {Env(IdpUp, 0, 0, ApiJson(Val(<<ClassT>>)), [NoLists EXCEPT ![ClassT] = ApiJson(Val(l))],
       ApiDown) : l \in {<<>>, <<s1>>}}

ReadListing ==
  \E env \in StaleEnvs :
    Call("c1", "get_sensors_list_for_class", <<ClassT>>, env,
         get_sensors_list_for_class("c1", World("c1"), env, ClassT))

ReadDirectory ==
  \E env \in StaleEnvs :
    Call("c1", "get_stations", <<>>, env, get_stations("c1", World("c1"), env))

ReadParameters ==
  \E env \in StaleEnvs, station_id \in StationIds :
    Call("c1", "get_station_parameters", <<station_id>>, env,
         get_station_parameters("c1", World("c1"), env, station_id))

NextStale ==
  \/ Elapse
  \/ ReadListing
  \/ ReadDirectory
  \/ ReadParameters

SpecStale == InitStale /\ [][NextStale]_vars

(* Properties of staleness between cache layers (SpecStale) *)

DerivedOps == {"get_stations", "get_station_parameters"}

\* the keys of the derived entries: the directory and the parameter lists
DerivedKeys == {KeyStations("c1")} \cup {KeyParams("c1", station_id) : station_id \in StationIds}

\* the class-level entries of a store
ClassLevel(store) ==
  [k \in DOMAIN store \cap {KeyClasses("c1"), KeyList("c1", ClassT)} |-> store[k]]

\* the directory entry of a store
DirectoryOnly(store) == [k \in DOMAIN store \cap {KeyStations("c1")} |-> store[k]]

\* the call is made when its own entry, once served, has expired
OwnExpired ==
  LET k == OwnKey(last') IN
  /\ k \in DOMAIN cache
  /\ Truthy(cache[k].value)
  /\ cache[k].expires <= last'.now0

\* the call as it would end, at its return, on a store
Rebuilt(store) == Replay([last' EXCEPT !.now0 = last'.tret], store)

\* a derived entry is written with 24 hours to live, and while it can be
\* served no call changes it: its life is never extended and never cut
DerivedEntryLife ==
  /\ \A k \in (DOMAIN cache') \cap DerivedKeys :
       \/ k \in DOMAIN cache /\ cache'[k] = cache[k]
       \/ IsCall /\ cache'[k].expires = last'.tret + 86400
  /\ \A k \in (DOMAIN cache) \cap DerivedKeys :
       (Truthy(cache[k].value) /\ now' < cache[k].expires) =>
         (k \in DOMAIN cache' /\ cache'[k] = cache[k])

\* a call made after its entry expired returns what the class-level entries
\* of the store give at its return
FromClassLevel ==
  (/\ last'.err = ""
   /\ OwnExpired
   /\ Rebuilt(ClassLevel(cache')).err = ""
   /\ Rebuilt(ClassLevel(cache')).nres = 0)
    => last'.ret = Rebuilt(ClassLevel(cache')).ret

----------------------------------------------------------------------------
(* Specification of the two reads of a hit: the caching client is called   *)
(* while the clock advances between calls and, by a second or not at all,  *)
(* between the hit test of a call and its read for the return              *)

NextHit ==
  \/ Tick
  \/ CallGetSensorClasses("c1", {IdpUp}, {0}, Gaps)
  \/ CallGetSensorsListForClass("c1", {IdpUp}, {0}, Gaps)
  \/ CallGetStations("c1", {IdpUp}, Gaps)
  \/ CallGetStationParameters("c1", {IdpUp}, Gaps)

SpecHit == Init /\ [][NextHit]_vars

(* Properties of the two reads of a hit (SpecHit) *)

\* C23: a call of a cached operation whose hit test succeeds returns the
\* value of its entry, valid at the moment of the read for the return, and
\* never null.
C23_HitReturnsEntry ==
  [][(/\ IsCall
      /\ last'.op \in CachedOps /\ use_cache(last'.c)
      /\ HitTest(last', cache, last'.now0))
     => (/\ last'.err = ""
         /\ last'.ret # PyNone
         /\ OwnKey(last') \in DOMAIN cache
         /\ last'.tret < cache[OwnKey(last')].expires
         /\ last'.ret = cache[OwnKey(last')].value)]_vars

====
